---- MODULE Spec2Model ----
(***************************************************************************)
(* The document ingestion pipeline of the repository:                      *)
(*   - extract_file  (merofunctions/extractors/main_extractor.py)          *)
(*   - the retry wrappers safe_upsert, call_openai_embedding, azure_ner    *)
(*     (function_app.py)                                                   *)
(*   - process_blob  (function_app.py): download, extract, chunk loop,     *)
(*     enrichment and persistence.                                         *)
(*   - the extractors with their clean_text and fixed-window slicing, and  *)
(*     get_chunks (function_app.py).                                       *)
(*   - process_existing_blobs (function_app.py): the HTTP trigger that     *)
(*     replays a container.                                                *)
(* Strings whose characters matter (blob names, chunk texts, document ids) *)
(* are sequences of one-character strings.                                 *)
(***************************************************************************)
EXTENDS Integers, Sequences, FiniteSets, TLC

VARIABLES
  env,               \* os.environ: variable name -> NoneValue (unset), "" or a value
  blob_url,          \* path of the blob URL, already split at '/'
  blob_name,         \* last path segment, as characters
  category,          \* container name
  event_time,        \* event time handed to process_blob
  pc,                \* position in process_blob / extract_file
  invoked,           \* extractors called by extract_file, in call order
  client_constructed,\* DocumentIntelligenceClient(...) was constructed
  raw_text,          \* inside an extractor: the text its library call produced
  full_text,         \* inside an extractor: clean_text(raw_text)
  chunk_size,        \* chunk_size of the extractor that was called
  extracted_data,    \* dictionary returned by the extractor
  chunks,            \* get_chunks(extracted_data)
  i,                 \* loop index of the chunk loop (0-based)
  entities,          \* result of azure_ner for the current chunk
  embedding,         \* result of call_openai_embedding for the current chunk
  successful_chunks,
  chunk_errors,      \* one entry per skipped or failed chunk
  store,             \* documents held by the Cosmos container
  outcome,           \* how the running function ended: kind and error
  attempts,          \* per chunk of this run: times the loop body was entered for it
  returned,          \* sub-calls that returned for the current chunk in this iteration
  written,           \* chunk indexes whose document upsert_item accepted in this run
  last_upsert,       \* per document id, the last document upsert_item accepted
  written_for,       \* per document id, the blob URL whose run wrote it last
  run,               \* number of process_blob runs started
  retry,             \* a retry wrapper called on its own: arguments and result
  req,               \* the HTTP request handed to process_existing_blobs
  hpc,               \* position in process_existing_blobs
  blob_list,         \* list(container_client.list_blobs()), the blob names
  blob_pos,          \* blobs of blob_list the for loop has gone through
  processed_count,
  failed_count,
  blob_errors,       \* one entry per blob whose process_blob raised
  response,          \* the func.HttpResponse returned
  azeventgrid,       \* the Event Grid event handed to triggerevent
  trigger_outcome    \* how triggerevent ended: kind and error

vars == <<env, blob_url, blob_name, category, event_time, pc, invoked,
          client_constructed, raw_text, full_text, chunk_size, extracted_data,
          chunks, i, entities, embedding,
          successful_chunks, chunk_errors, store, outcome, attempts, returned, written,
          last_upsert, written_for,
          run, retry, req, hpc, blob_list, blob_pos, processed_count, failed_count,
          blob_errors, response, azeventgrid, trigger_outcome>>

(***************************************************************************)
(* Bounds of the model.                                                    *)
(***************************************************************************)
MaxTextLen == 4       \* longest text an extractor reads when one file is processed
MaxRerunTextLen == 2  \* the same, when files are processed again and again
MaxRuns == 2          \* process_blob runs against one store
MaxRetryBudget == 3   \* largest max_retries a retry wrapper is called with
MaxRawLen == 5        \* longest text an extractor reads when it is called on its own
MaxChunkSize == 3     \* largest chunk_size an extractor is called with
MaxDictLen == 2       \* longest text_chunks list and text handed to get_chunks
MaxBlobs == 6         \* most blobs a container lists
\* chunk_size of the extractors.  The source slices at 10000 characters; the model
\* slices the same way at ChunkSize, so that a text of a few characters spans
\* several chunks.
ChunkSize == 1

(***************************************************************************)
(* Characters and strings.                                                 *)
(***************************************************************************)
UpperCase == <<"A","B","C","D","E","F","G","H","I","J","K","L","M",
               "N","O","P","Q","R","S","T","U","V","W","X","Y","Z">>
LowerCase == <<"a","b","c","d","e","f","g","h","i","j","k","l","m",
               "n","o","p","q","r","s","t","u","v","w","x","y","z">>

\* str.lower() on one character
LowerChar(c) ==
  IF \E k \in 1..26 : UpperCase[k] = c
  THEN LowerCase[CHOOSE k \in 1..26 : UpperCase[k] = c]
  ELSE c

\* str.lower()
Lower(s) == [k \in 1..Len(s) |-> LowerChar(s[k])]

\* s.split(sep)[-1]: the text after the last sep, the whole of s without one
RECURSIVE LastSegment(_, _)
LastSegment(s, sep) ==
  IF s = <<>> THEN <<>>
  ELSE IF s[Len(s)] = sep THEN <<>>
  ELSE Append(LastSegment(SubSeq(s, 1, Len(s) - 1), sep), s[Len(s)])

\* s.replace(old, new) for one-character old and new
ReplaceChar(s, old, new) == [k \in 1..Len(s) |-> IF s[k] = old THEN new ELSE s[k]]

WhiteSpace == {" ", "\t", "\n"}

\* str.strip()
RECURSIVE Strip(_)
Strip(s) ==
  IF s = <<>> THEN <<>>
  ELSE IF s[1] \in WhiteSpace THEN Strip(Tail(s))
  ELSE IF s[Len(s)] \in WhiteSpace THEN Strip(SubSeq(s, 1, Len(s) - 1))
  ELSE s

Digits == <<"0","1","2","3","4","5","6","7","8","9">>

\* str(n) for a natural number n
RECURSIVE IntToStr(_)
IntToStr(n) ==
  IF n < 10 THEN <<Digits[n + 1]>>
  ELSE Append(IntToStr(n \div 10), Digits[(n % 10) + 1])

\* Python truthiness of a string read from the environment or passed as argument:
\* None and "" are both false
NoneValue == "<None>"

\* a variant that tests only for None
TruthyNotNone(v) == v # NoneValue

Truthy(v) == v # NoneValue /\ v # ""

(***************************************************************************)
(* extract_file: routing on the extension.                                 *)
(***************************************************************************)
ExtPdf  == <<"p","d","f">>
ExtDocx == <<"d","o","c","x">>
ExtImage == {<<"j","p","g">>, <<"j","p","e","g">>, <<"p","n","g">>,
             <<"b","m","p">>, <<"s","v","g">>}
ExtCsv  == <<"c","s","v">>
ExtJson == <<"j","s","o","n">>
ExtTxt  == <<"t","x","t">>

\* a variant that compares the extension as written
ExtensionCaseSensitive(name) == LastSegment(name, ".")

\* blob_name.lower().split('.')[-1]
Extension(name) == LastSegment(Lower(name), ".")

\* The branch extract_file takes: the extractor it calls, or the error it raises
\* without calling one.
Route(name, doc_intel_endpoint, doc_intel_key) ==
  LET extension == Extension(name) IN
  IF extension = ExtPdf THEN
       IF ~Truthy(doc_intel_endpoint) \/ ~Truthy(doc_intel_key)
       THEN [extractor |-> "none", error |-> "ValueError: Document Intelligence endpoint and key required for PDF"]
       ELSE [extractor |-> "extract_pdf", error |-> "none"]
  ELSE IF extension = ExtDocx THEN [extractor |-> "extract_docx", error |-> "none"]
  ELSE IF extension \in ExtImage THEN [extractor |-> "extract_image_ocr", error |-> "none"]
  ELSE IF extension = ExtCsv THEN [extractor |-> "extract_csv", error |-> "none"]
  ELSE IF extension = ExtJson THEN [extractor |-> "extract_json", error |-> "none"]
  ELSE IF extension = ExtTxt THEN [extractor |-> "extract_text", error |-> "none"]
  ELSE [extractor |-> "none", error |-> "ValueError: Unsupported file type"]

(***************************************************************************)
(* Answers of the external collaborators.  An exception carries its text   *)
(* (str(e)); an HTTP response carries its status and what its body holds.  *)
(***************************************************************************)
Msg429 == <<"4","2","9">>
MsgRateLimit == <<"R","a","t","e"," ","l","i","m","i","t">>
MsgRequestRate == <<"R","e","q","u","e","s","t"," ","r","a","t","e"," ",
                    "i","s"," ","l","a","r","g","e">>
MsgOther == <<"4","0","1"," ","d","e","n","i","e","d">>

\* sub in s
Contains(s, sub) ==
  \E k \in 0..(Len(s) - Len(sub)) : SubSeq(s, k + 1, k + Len(sub)) = sub

Ok(v) == [kind |-> "ok", status |-> 200, value |-> v, msg |-> <<>>]
Exc(m) == [kind |-> "exception", status |-> 0, value |-> <<>>, msg |-> m]
Http(code) == [kind |-> "http", status |-> code, value |-> <<>>, msg |-> <<>>]
\* a 200 whose entity objects lack "text" or "category": ent["text"] raises KeyError
Malformed == [kind |-> "malformed", status |-> 200, value |-> <<>>, msg |-> <<>>]
\* requests.RequestException: connection error, timeout
NetworkError == [kind |-> "request_exception", status |-> 0, value |-> <<>>, msg |-> <<>>]

SampleEntity == [text |-> "Kathmandu", label |-> "Location"]

\* every answer of a collaborator
EmbeddingAnswersAll ==
  {Ok(<<1>>), Ok(<<2>>), Exc(Msg429), Exc(MsgRateLimit), Exc(MsgRequestRate), Exc(MsgOther)}
UpsertAnswersAll ==
  {Ok(<<>>), Exc(Msg429), Exc(MsgRateLimit), Exc(MsgRequestRate), Exc(MsgOther)}
NerAnswersAll ==
  {Ok(<<SampleEntity>>), Ok(<<>>), Malformed, Http(429), Http(500), Http(401), NetworkError}

\* the answers drawn while a whole file is processed
EmbeddingAnswersRun == {Ok(<<1>>), Exc(Msg429), Exc(MsgOther)}
UpsertAnswersRun == {Ok(<<>>), Exc(Msg429), Exc(MsgOther)}
NerAnswersRun == {Ok(<<SampleEntity>>), Http(429), Http(500), NetworkError}

\* the answers drawn while files are processed again and again
EmbeddingAnswersRerun == {Ok(<<1>>), Ok(<<2>>), Exc(MsgOther)}
UpsertAnswersRerun == {Ok(<<>>), Exc(MsgOther)}
NerAnswersRerun == {Ok(<<SampleEntity>>), Http(500)}

(***************************************************************************)
(* The retry wrappers.  A call in progress is a record: its arguments, the *)
(* loop variable, the collaborator invocations and time.sleep calls made   *)
(* so far, and how it ended.                                               *)
(***************************************************************************)
DefaultMaxRetries == 3
UpsertDelay == 2
EmbeddingDelay == 2
NerDelay == 1

Idle == [op |-> "none", max_retries |-> 0, delay |-> 0, attempt |-> 0, calls |-> 0,
         sleeps |-> <<>>, answers |-> <<>>, status |-> "idle", value |-> <<>>,
         error |-> "none"]

\* the call as the for loop is entered
EnterLoop(op, max_retries, delay) ==
  [op |-> op, max_retries |-> max_retries, delay |-> delay, attempt |-> 0, calls |-> 0,
   sleeps |-> <<>>, answers |-> <<>>, status |-> "running", value |-> <<>>,
   error |-> "none"]

Return(r, v) == [r EXCEPT !.status = "returned", !.value = v]
Raise(r, e) == [r EXCEPT !.status = "raised", !.error = e]
Sleep(r, seconds) == [r EXCEPT !.sleeps = Append(@, seconds)]
Invoked(r, answer) == [r EXCEPT !.calls = @ + 1, !.answers = Append(@, answer)]

\* a variant whose loop gives up one attempt early
NextAttemptOffByOne(r, exhausted) ==
  IF r.attempt + 2 < r.max_retries
  THEN [r EXCEPT !.attempt = @ + 1]
  ELSE Raise([r EXCEPT !.attempt = @ + 1], exhausted)

\* a variant whose loop allows one attempt more than max_retries
NextAttemptOneMore(r, exhausted) ==
  IF r.attempt + 1 < r.max_retries + 1
  THEN [r EXCEPT !.attempt = @ + 1]
  ELSE Raise([r EXCEPT !.attempt = @ + 1], exhausted)

\* for attempt in range(max_retries): the next iteration, or the code after the loop
NextAttempt(r, exhausted) ==
  IF r.attempt + 1 < r.max_retries
  THEN [r EXCEPT !.attempt = @ + 1]
  ELSE Raise([r EXCEPT !.attempt = @ + 1], exhausted)

\* range(max_retries) is empty for max_retries <= 0
Begin(op, max_retries, delay, exhausted) ==
  IF max_retries > 0
  THEN EnterLoop(op, max_retries, delay)
  ELSE Raise(EnterLoop(op, max_retries, delay), exhausted)

\* safe_upsert: the except branch's test
UpsertThrottled(msg) == Contains(msg, MsgRequestRate) \/ Contains(msg, Msg429)

\* call_openai_embedding: the except branch's test
EmbeddingThrottled(msg) == Contains(msg, Msg429) \/ Contains(msg, MsgRateLimit)

\* a variant that retries after every exception
UpsertAttemptRetriesAll(r, answer) ==
  LET c == Invoked(r, answer) IN
  IF answer.kind = "ok" THEN Return(c, <<>>)
  ELSE IF c.attempt + 1 < c.max_retries
       THEN [Sleep(c, c.delay * (c.attempt + 1)) EXCEPT !.attempt = @ + 1]
       ELSE Raise(Sleep(c, c.delay * (c.attempt + 1)),
                  "Cosmos DB upsert failed after all retries")

\* safe_upsert: one iteration of the loop, container.upsert_item answering `answer`
UpsertAttempt(r, answer) ==
  LET c == Invoked(r, answer) IN
  IF answer.kind = "ok" THEN Return(c, <<>>)
  ELSE IF UpsertThrottled(answer.msg)
       THEN NextAttempt(Sleep(c, c.delay * (c.attempt + 1)),
                        "Cosmos DB upsert failed after all retries")
       ELSE Raise(c, "reraised")

\* call_openai_embedding before the loop: an empty chunk returns [] at once
EmbeddingBegin(chunk, max_retries, delay) ==
  IF chunk = <<>> \/ Strip(chunk) = <<>>
  THEN Return(EnterLoop("call_openai_embedding", max_retries, delay), <<>>)
  ELSE Begin("call_openai_embedding", max_retries, delay,
             "OpenAI embedding failed after all retries")

\* a variant that returns [] instead of raising once the attempts are used up
EmbeddingAttemptReturnsEmpty(r, answer) ==
  LET c == Invoked(r, answer) IN
  IF answer.kind = "ok" THEN Return(c, answer.value)
  ELSE IF Contains(answer.msg, Msg429) \/ Contains(answer.msg, MsgRateLimit)
       THEN IF c.attempt + 1 < c.max_retries
            THEN [Sleep(c, c.delay * (c.attempt + 1)) EXCEPT !.attempt = @ + 1]
            ELSE Return(Sleep(c, c.delay * (c.attempt + 1)), <<>>)
       ELSE Raise(c, "reraised")

\* call_openai_embedding: one iteration of the loop
EmbeddingAttempt(r, answer) ==
  LET c == Invoked(r, answer) IN
  IF answer.kind = "ok" THEN Return(c, answer.value)
  ELSE IF EmbeddingThrottled(answer.msg)
       THEN NextAttempt(Sleep(c, c.delay * (c.attempt + 1)),
                        "OpenAI embedding failed after all retries")
       ELSE Raise(c, "reraised")

\* a variant that fails without endpoint or key
NerBeginRequiresCredentials(endpoint, key, max_retries, delay) ==
  IF ~Truthy(endpoint) \/ ~Truthy(key)
  THEN Raise(EnterLoop("azure_ner", max_retries, delay), "credentials not found")
  ELSE Begin("azure_ner", max_retries, delay, "Azure NER failed after all retries")

\* azure_ner before the loop: without endpoint or key it returns [] at once
NerBegin(endpoint, key, max_retries, delay) ==
  IF ~Truthy(endpoint) \/ ~Truthy(key)
  THEN Return(EnterLoop("azure_ner", max_retries, delay), <<>>)
  ELSE Begin("azure_ner", max_retries, delay, "Azure NER failed after all retries")

\* a variant that waits the same delay after every 429
NerAttemptConstantDelay(r, answer) ==
  LET c == Invoked(r, answer) IN
  IF answer.kind = "ok" THEN Return(c, answer.value)
  ELSE IF answer.kind = "malformed" THEN Raise(c, "KeyError")
  ELSE IF answer.kind = "http" /\ answer.status = 429
       THEN NextAttempt(Sleep(c, c.delay), "Azure NER failed after all retries")
  ELSE IF answer.kind = "http"
       THEN Raise(c, "Azure NER failed after all retries")
  ELSE NextAttempt(IF c.attempt < c.max_retries - 1 THEN Sleep(c, c.delay) ELSE c,
                   "Azure NER failed after all retries")

\* azure_ner: one iteration of the loop, requests.post answering `answer`; the
\* handler at the end of the function re-raises because endpoint and key are set
NerAttempt(r, answer) ==
  LET c == Invoked(r, answer) IN
  IF answer.kind = "ok" THEN Return(c, answer.value)
  ELSE IF answer.kind = "malformed" THEN Raise(c, "KeyError")
  ELSE IF answer.kind = "http" /\ answer.status = 429
       THEN NextAttempt(Sleep(c, c.delay * (c.attempt + 1)),
                        "Azure NER failed after all retries")
  ELSE IF answer.kind = "http"
       THEN Raise(c, "Azure NER failed after all retries")
  ELSE NextAttempt(IF c.attempt < c.max_retries - 1 THEN Sleep(c, c.delay) ELSE c,
                   "Azure NER failed after all retries")

(***************************************************************************)
(* The Cosmos container and the document process_blob writes.              *)
(***************************************************************************)
\* a variant that inserts without replacing
InsertItem(S, doc) == S \cup {doc}

\* container.upsert_item(doc): insert, or replace the document of the same id
UpsertItem(S, doc) == {d \in S : d.id # doc.id} \cup {doc}

\* f"{blob_name.replace('/', '_').replace('.', '_')}_{i}"
DocId(name, index) ==
  ReplaceChar(ReplaceChar(name, "/", "_"), ".", "_") \o <<"_">> \o IntToStr(index)

\* cosmos_doc as process_blob assembles it for chunk `index`; processed_at is
\* read from the clock, which the model advances once per run
CosmosDoc(name, cat, chunk, emb, ents, index, time, now) ==
  [id |-> DocId(name, index), category |-> cat, filename |-> name, text |-> chunk,
   embedding |-> emb, entities |-> ents, chunk_index |-> index,
   chunk_length |-> Len(chunk), timestamp |-> time, processed_at |-> now]

(***************************************************************************)
(* Blob URL, environment and extractor results.                            *)
(***************************************************************************)
\* s.lstrip(ch)
RECURSIVE LStrip(_, _)
LStrip(s, ch) == IF s # <<>> /\ s[1] = ch THEN LStrip(Tail(s), ch) ELSE s

\* s.split(sep, 1)
SplitOnce(s, sep) ==
  IF \E k \in 1..Len(s) : s[k] = sep
  THEN LET k == CHOOSE k \in 1..Len(s) : s[k] = sep /\ \A j \in 1..(k - 1) : s[j] # sep
       IN <<SubSeq(s, 1, k - 1), SubSeq(s, k + 1, Len(s))>>
  ELSE <<s>>

RequiredEnvVars == {"COSMOS_ENDPOINT", "COSMOS_KEY", "OPENAI_KEY", "OPENAI_ENDPOINT",
                    "AzureWebJobsStorage"}
OptionalEnvVars == {"AZURE_LANGUAGE_ENDPOINT", "AZURE_LANGUAGE_KEY",
                    "DOC_INTEL_ENDPOINT", "DOC_INTEL_KEY"}
EnvVars == RequiredEnvVars \cup OptionalEnvVars

\* os.environ.get(name)
Getenv(name) == env[name]

\* the text field each extractor fills, and its "type"
ExtractorKind ==
  [extract_pdf |-> [field |-> "text_chunks", type |-> "pdf"],
   extract_docx |-> [field |-> "text_chunks", type |-> "docx"],
   extract_text |-> [field |-> "text_chunks", type |-> "text"],
   extract_image_ocr |-> [field |-> "text", type |-> "image"],
   extract_csv |-> [field |-> "text", type |-> "csv"],
   extract_json |-> [field |-> "text", type |-> "json"]]

\* a variant that slices full windows only and drops a shorter last one
FixedWindowDropsRemainder(text, size) ==
  [k \in 1..(Len(text) \div size) |-> SubSeq(text, (k - 1) * size + 1, k * size)]

\* [text[i:i+chunk_size] for i in range(0, len(text), chunk_size)]
FixedWindow(text, size) ==
  [k \in 1..((Len(text) + size - 1) \div size) |->
     SubSeq(text, (k - 1) * size + 1,
            IF k * size < Len(text) THEN k * size ELSE Len(text))]

\* a variant in which no extractor slices its text
ExtractorResultUnsliced(extractor, text, size) ==
  IF ExtractorKind[extractor].field = "text_chunks"
  THEN [type |-> ExtractorKind[extractor].type,
        text_chunks |-> IF text = <<>> THEN <<>> ELSE <<text>>]
  ELSE [type |-> ExtractorKind[extractor].type, text |-> text]

\* a variant in which every extractor returns the whole text beside its slices
ExtractorResultBothFields(extractor, text, size) ==
  [type |-> ExtractorKind[extractor].type,
   text_chunks |-> FixedWindow(text, size),
   text |-> text]

\* the dictionary an extractor returns for cleaned text `text` (tables left out)
ExtractorResult(extractor, text, size) ==
  IF ExtractorKind[extractor].field = "text_chunks"
  THEN [type |-> ExtractorKind[extractor].type,
        text_chunks |-> FixedWindow(text, size)]
  ELSE [type |-> ExtractorKind[extractor].type, text |-> text]

NoData == [type |-> "none"]

\* a variant that looks at "text" before "text_chunks"
get_chunksPrefersText(data) ==
  IF "text" \in DOMAIN data /\ data.text # <<>>
  THEN <<data.text>>
  ELSE IF "text_chunks" \in DOMAIN data /\ data.text_chunks # <<>>
       THEN data.text_chunks
       ELSE <<>>

\* get_chunks
get_chunks(data) ==
  IF "text_chunks" \in DOMAIN data /\ data.text_chunks # <<>>
  THEN data.text_chunks
  ELSE IF "text" \in DOMAIN data /\ data.text # <<>>
       THEN <<data.text>>
       ELSE <<>>

\* a variant that tests for the empty string only
IsEmptyChunkNoStrip(chunk) == chunk = <<>>

\* not chunk or not chunk.strip()
IsEmptyChunk(chunk) == chunk = <<>> \/ Strip(chunk) = <<>>

\* re.sub(r'\s+', ' ', s): every run of whitespace becomes one space
RECURSIVE CollapseWhiteSpace(_)
CollapseWhiteSpace(s) ==
  IF s = <<>> THEN <<>>
  ELSE IF s[1] \in WhiteSpace
       THEN IF Len(s) > 1 /\ s[2] \in WhiteSpace
            THEN CollapseWhiteSpace(Tail(s))
            ELSE <<" ">> \o CollapseWhiteSpace(Tail(s))
       ELSE <<s[1]>> \o CollapseWhiteSpace(Tail(s))

\* the characters of the model: a word character, whitespace, a punctuation mark
\* every clean_text keeps, one only the document extractors keep, one none keeps
WordChars == {"a"}
CommonPunctuation == {","}
DocumentPunctuation == CommonPunctuation \cup {"!"}
OtherChars == {"#"}

\* the punctuation the clean_text of each extractor's module keeps
Punctuation ==
  [extract_pdf |-> DocumentPunctuation,
   extract_docx |-> DocumentPunctuation,
   extract_text |-> DocumentPunctuation,
   extract_image_ocr |-> DocumentPunctuation,
   extract_csv |-> CommonPunctuation,
   extract_json |-> CommonPunctuation]

\* re.sub(r'[^\w\s<punctuation>]', '', s)
RemoveDisallowed(s, punctuation) ==
  SelectSeq(s, LAMBDA c : c \in WordChars \cup WhiteSpace \cup punctuation)

\* clean_text(text): whitespace is normalised first, then characters are removed
clean_text(text, punctuation) ==
  RemoveDisallowed(CollapseWhiteSpace(Strip(text)), punctuation)

\* texts of at most n characters over chars
RawTexts(chars, n) == UNION {[1..k -> chars] : k \in 0..n}

\* the characters of the texts read when a file is processed
RunChars == {" ", "a", "#"}

\* the texts read from the blobs of IdUrls: one word, two words, and a text that
\* cleans to a blank and a word
IdTexts == {<<"a">>, <<"a", "a">>, <<"#", " ", "a">>}

\* the texts read when files are processed again and again: words, and a text that
\* cleans to a blank and a word
RerunTexts(n) == RawTexts({"a"}, n) \cup {<<"#", " ", "a">>}

(***************************************************************************)
(* process_blob, one action per step.                                      *)
(***************************************************************************)
NoOutcome == [kind |-> "none", error |-> "none", warning |-> FALSE]

\* variables of the chunk loop and of the store
loopVars == <<chunks, i, entities, embedding, successful_chunks, chunk_errors,
              attempts, returned>>
storeVars == <<store, written, last_upsert, written_for>>
\* variables of process_existing_blobs
triggerVars == <<req, hpc, blob_list, blob_pos, processed_count, failed_count,
                 blob_errors, response, azeventgrid, trigger_outcome>>
\* what process_blob is called with and in
inputVars == <<env, blob_url, event_time, run, chunk_size, triggerVars>>
extractVars == <<invoked, client_constructed, raw_text, full_text, extracted_data>>

\* an exception leaves the running function
Raised(e) ==
  /\ pc' = "done"
  /\ outcome' = [kind |-> "raised", error |-> e, warning |-> FALSE]

\* urlparse(blob_url).path split into container and blob path
ParseUrl ==
  /\ pc = "parse_url"
  /\ LET container_and_blob == SplitOnce(LStrip(blob_url, "/"), "/") IN
     IF Len(container_and_blob) # 2
     THEN /\ Raised("Invalid blob URL format")
          /\ UNCHANGED <<blob_name, category>>
     ELSE /\ category' = container_and_blob[1]
          /\ blob_name' = LastSegment(container_and_blob[2], "/")
          /\ pc' = "validate_env"
          /\ UNCHANGED outcome
  /\ UNCHANGED <<inputVars, extractVars, loopVars, storeVars, retry>>

\* the check of the required environment variables
ValidateEnv ==
  /\ pc = "validate_env"
  /\ IF \E v \in RequiredEnvVars : ~Truthy(Getenv(v))
     THEN Raised("Missing environment variables")
     ELSE pc' = "init_clients" /\ UNCHANGED outcome
  /\ UNCHANGED <<inputVars, blob_name, category, extractVars, loopVars, storeVars, retry>>

\* BlobServiceClient, CosmosClient and create_openai_client: each may raise
InitClients ==
  /\ pc = "init_clients"
  /\ \/ pc' = "download" /\ UNCHANGED outcome
     \/ Raised("client initialization failed")
  /\ UNCHANGED <<inputVars, blob_name, category, extractVars, loopVars, storeVars, retry>>

\* blob_client.download_blob().readall()
DownloadBlob ==
  /\ pc = "download"
  /\ \/ pc' = "extract_file" /\ UNCHANGED outcome
     \/ Raised("blob download failed")
  /\ UNCHANGED <<inputVars, blob_name, category, extractVars, loopVars, storeVars, retry>>

\* extract_file up to the call of the extractor
ExtractFile ==
  /\ pc = "extract_file"
  /\ LET r == Route(blob_name, Getenv("DOC_INTEL_ENDPOINT"), Getenv("DOC_INTEL_KEY")) IN
     IF r.error # "none"
     THEN Raised(r.error) /\ UNCHANGED invoked
     ELSE /\ invoked' = Append(invoked, r.extractor)
          /\ pc' = "extractor"
          /\ UNCHANGED outcome
  /\ UNCHANGED <<inputVars, blob_name, category, client_constructed, raw_text, full_text,
                 extracted_data, loopVars, storeVars, retry>>

\* what the library call of an extractor raises: a ValueError (UnicodeDecodeError and
\* json.JSONDecodeError are ValueErrors) or another exception
ExtractionErrors == {"extraction failed", "ValueError: extraction failed"}

\* the extractor up to its text: extract_pdf constructs the Document Intelligence
\* client first; the library call (layout analysis, OCR, parsing, decoding) raises or
\* produces one of `texts`
ExtractorRun(texts) ==
  /\ pc = "extractor"
  /\ LET extractor == invoked[Len(invoked)] IN
     /\ client_constructed' = (client_constructed \/ extractor = "extract_pdf")
     /\ \/ /\ \E e \in ExtractionErrors : Raised(e)
           /\ UNCHANGED raw_text
        \/ \E text \in texts :
             /\ raw_text' = text
             /\ pc' = "clean_text"
             /\ UNCHANGED outcome
  /\ UNCHANGED <<inputVars, blob_name, category, invoked, full_text, extracted_data,
                 loopVars, storeVars, retry>>

\* text = clean_text(text) inside the extractor
CleanText ==
  /\ pc = "clean_text"
  /\ full_text' = clean_text(raw_text, Punctuation[invoked[Len(invoked)]])
  /\ pc' = "extractor_return"
  /\ UNCHANGED <<inputVars, blob_name, category, outcome, invoked, client_constructed,
                 raw_text, extracted_data, loopVars, storeVars, retry>>

\* the extractor slices the cleaned text, or keeps it whole, and returns its dictionary
ExtractorReturn ==
  /\ pc = "extractor_return"
  /\ extracted_data' = ExtractorResult(invoked[Len(invoked)], full_text, chunk_size)
  /\ raw_text' = <<>>
  /\ pc' = "get_chunks"
  /\ UNCHANGED <<inputVars, blob_name, category, outcome, invoked, client_constructed,
                 full_text, loopVars, storeVars, retry>>

\* a variant without the check that there are some chunks
GetChunksAcceptsEmpty ==
  /\ pc = "get_chunks"
  /\ LET cs == get_chunks(extracted_data) IN
     /\ chunks' = cs
     /\ attempts' = [k \in 1..Len(cs) |-> 0]
  /\ pc' = "loop"
  /\ i' = 0
  /\ successful_chunks' = 0
  /\ chunk_errors' = <<>>
  /\ UNCHANGED <<inputVars, blob_name, category, outcome, extractVars, entities, embedding,
                 returned, storeVars, retry>>

\* chunks = get_chunks(extracted_data), and the check that there are some
GetChunks ==
  /\ pc = "get_chunks"
  /\ LET cs == get_chunks(extracted_data) IN
     /\ chunks' = cs
     /\ IF cs = <<>>
        THEN Raised("No chunks extracted") /\ UNCHANGED attempts
        ELSE /\ pc' = "loop"
             /\ attempts' = [k \in 1..Len(cs) |-> 0]
             /\ UNCHANGED outcome
  /\ i' = 0
  /\ successful_chunks' = 0
  /\ chunk_errors' = <<>>
  /\ UNCHANGED <<inputVars, blob_name, category, extractVars, entities, embedding,
                 returned, storeVars, retry>>

\* the except branch of the chunk loop is entered
ChunkFailed ==
  /\ pc' = "except"
  /\ retry' = Idle

\* a variant in which a failed azure_ner counts as "no entities"
AfterNerSwallowsFailure(r) ==
  IF r.status = "running"
  THEN /\ retry' = r
       /\ UNCHANGED <<pc, entities, returned>>
  ELSE /\ entities' = r.value
       /\ returned' = (IF r.status = "returned" THEN returned \cup {"azure_ner"} ELSE returned)
       /\ pc' = "call_openai_embedding"
       /\ retry' = EmbeddingBegin(chunks[i + 1], DefaultMaxRetries, EmbeddingDelay)

\* what follows azure_ner(chunk) once the call stands at r
AfterNer(r) ==
  IF r.status = "running"
  THEN /\ retry' = r
       /\ UNCHANGED <<pc, entities, returned>>
  ELSE IF r.status = "returned"
  THEN /\ entities' = r.value
       /\ returned' = returned \cup {"azure_ner"}
       /\ pc' = "call_openai_embedding"
       /\ retry' = EmbeddingBegin(chunks[i + 1], DefaultMaxRetries, EmbeddingDelay)
  ELSE /\ ChunkFailed
       /\ UNCHANGED <<entities, returned>>

\* a variant that skips an empty chunk without recording it in chunk_errors
SkipEmptyChunkUnrecorded ==
  /\ pc = "loop"
  /\ i < Len(chunks)
  /\ IsEmptyChunk(chunks[i + 1])
  /\ attempts' = [attempts EXCEPT ![i + 1] = @ + 1]
  /\ i' = i + 1
  /\ returned' = {}
  /\ UNCHANGED <<inputVars, blob_name, category, pc, outcome, extractVars, chunks, entities,
                 embedding, successful_chunks, chunk_errors, storeVars, retry>>

\* the loop body is entered for an empty or whitespace-only chunk
SkipEmptyChunk ==
  /\ pc = "loop"
  /\ i < Len(chunks)
  /\ IsEmptyChunk(chunks[i + 1])
  /\ attempts' = [attempts EXCEPT ![i + 1] = @ + 1]
  /\ chunk_errors' = Append(chunk_errors, [chunk |-> i, kind |-> "Empty chunk"])
  /\ i' = i + 1
  /\ returned' = {}
  /\ UNCHANGED <<inputVars, blob_name, category, pc, outcome, extractVars, chunks, entities,
                 embedding, successful_chunks, storeVars, retry>>


\* a variant in which azure_ner is given the base delay of the embedding call
EnterChunkSharedDelay ==
  /\ pc = "loop"
  /\ i < Len(chunks)
  /\ ~IsEmptyChunk(chunks[i + 1])
  /\ attempts' = [attempts EXCEPT ![i + 1] = @ + 1]
  /\ returned' = {}
  /\ pc' = "azure_ner"
  /\ retry' = NerBegin(Getenv("AZURE_LANGUAGE_ENDPOINT"), Getenv("AZURE_LANGUAGE_KEY"),
                       DefaultMaxRetries, EmbeddingDelay)
  /\ UNCHANGED <<inputVars, blob_name, category, outcome, extractVars, chunks, i, entities,
                 embedding, successful_chunks, chunk_errors, storeVars>>

\* the loop body is entered for any other chunk: entities = azure_ner(chunk) is called
EnterChunk ==
  /\ pc = "loop"
  /\ i < Len(chunks)
  /\ ~IsEmptyChunk(chunks[i + 1])
  /\ attempts' = [attempts EXCEPT ![i + 1] = @ + 1]
  /\ returned' = {}
  /\ pc' = "azure_ner"
  /\ retry' = NerBegin(Getenv("AZURE_LANGUAGE_ENDPOINT"), Getenv("AZURE_LANGUAGE_KEY"),
                       DefaultMaxRetries, NerDelay)
  /\ UNCHANGED <<inputVars, blob_name, category, outcome, extractVars, chunks, i, entities,
                 embedding, successful_chunks, chunk_errors, storeVars>>

\* azure_ner(chunk): one request of its loop, or its return without a request
AzureNer(answers) ==
  /\ pc = "azure_ner"
  /\ \E a \in answers :
       AfterNer(IF retry.status = "running" THEN NerAttempt(retry, a) ELSE retry)
  /\ UNCHANGED <<inputVars, blob_name, category, outcome, extractVars, chunks, i,
                 embedding, successful_chunks, chunk_errors, attempts, storeVars>>

\* a variant that numbers the chunks from 1
CurrentDocOneBased(emb) ==
  CosmosDoc(blob_name, category, chunks[i + 1], emb, entities, i + 1, event_time, run)

\* cosmos_doc of the current chunk
CurrentDoc(emb) ==
  CosmosDoc(blob_name, category, chunks[i + 1], emb, entities, i, event_time, run)

\* what follows call_openai_embedding(openai_client, chunk) once the call stands at r
AfterEmbedding(r) ==
  IF r.status = "running"
  THEN /\ retry' = r
       /\ UNCHANGED <<pc, embedding, returned>>
  ELSE IF r.status = "returned"
  THEN /\ embedding' = r.value
       /\ returned' = returned \cup {"call_openai_embedding"}
       /\ pc' = "safe_upsert"
       /\ retry' = Begin("safe_upsert", DefaultMaxRetries, UpsertDelay,
                         "Cosmos DB upsert failed after all retries")
  ELSE /\ ChunkFailed
       /\ UNCHANGED <<embedding, returned>>

\* call_openai_embedding(openai_client, chunk): one request of its loop
CallOpenaiEmbedding(answers) ==
  /\ pc = "call_openai_embedding"
  /\ \E a \in answers :
       AfterEmbedding(IF retry.status = "running" THEN EmbeddingAttempt(retry, a) ELSE retry)
  /\ UNCHANGED <<inputVars, blob_name, category, outcome, extractVars, chunks, i,
                 entities, successful_chunks, chunk_errors, attempts, storeVars>>

\* container.upsert_item(doc) answered `answer`: the store takes the document on success
Persist(answer, doc) ==
  IF answer.kind = "ok"
  THEN /\ store' = UpsertItem(store, doc)
       /\ last_upsert' = [id \in DOMAIN last_upsert \cup {doc.id} |->
                            IF id = doc.id THEN doc ELSE last_upsert[id]]
       /\ written_for' = [id \in DOMAIN written_for \cup {doc.id} |->
                            IF id = doc.id THEN blob_url ELSE written_for[id]]
  ELSE UNCHANGED <<store, last_upsert, written_for>>

\* what follows safe_upsert(container, cosmos_doc) once the call stands at r
AfterUpsert(r) ==
  IF r.status = "running"
  THEN /\ retry' = r
       /\ UNCHANGED <<pc, i, successful_chunks, returned, written>>
  ELSE IF r.status = "returned"
  THEN /\ successful_chunks' = successful_chunks + 1
       /\ returned' = returned \cup {"safe_upsert"}
       /\ written' = written \cup {i}
       /\ i' = i + 1
       /\ pc' = "loop"
       /\ retry' = Idle
  ELSE /\ ChunkFailed
       /\ UNCHANGED <<i, successful_chunks, returned, written>>

\* safe_upsert(container, cosmos_doc): one upsert_item of its loop
SafeUpsert(answers) ==
  /\ pc = "safe_upsert"
  /\ retry.status = "running"
  /\ \E a \in answers :
       /\ Persist(a, CurrentDoc(embedding))
       /\ AfterUpsert(UpsertAttempt(retry, a))
  /\ UNCHANGED <<inputVars, blob_name, category, outcome, extractVars, chunks,
                 entities, embedding, chunk_errors, attempts>>

\* a variant in which a failed chunk ends the loop
ChunkExceptAborts ==
  /\ pc = "except"
  /\ chunk_errors' = Append(chunk_errors, [chunk |-> i, kind |-> "Failed to process chunk"])
  /\ i' = Len(chunks)
  /\ pc' = "loop"
  /\ UNCHANGED <<inputVars, blob_name, category, outcome, extractVars, chunks, entities,
                 embedding, successful_chunks, attempts, returned, storeVars, retry>>

\* except Exception as e: the error is recorded and the loop goes on
ChunkExcept ==
  /\ pc = "except"
  /\ chunk_errors' = Append(chunk_errors, [chunk |-> i, kind |-> "Failed to process chunk"])
  /\ i' = i + 1
  /\ pc' = "loop"
  /\ UNCHANGED <<inputVars, blob_name, category, outcome, extractVars, chunks, entities,
                 embedding, successful_chunks, attempts, returned, storeVars, retry>>

\* a variant that also raises when more than half of the chunks failed
AggregateRaisesOnHighFailure ==
  /\ pc = "loop"
  /\ i = Len(chunks)
  /\ pc' = "done"
  /\ IF successful_chunks = 0 \/ 2 * (Len(chunks) - successful_chunks) > Len(chunks)
     THEN outcome' = [kind |-> "raised", error |-> "All chunks failed", warning |-> FALSE]
     ELSE outcome' = [kind |-> "returned", error |-> "none", warning |-> FALSE]
  /\ UNCHANGED <<inputVars, blob_name, category, extractVars, loopVars, storeVars, retry>>

\* after the loop: failure_rate and the decision to raise
Aggregate ==
  /\ pc = "loop"
  /\ i = Len(chunks)
  /\ pc' = "done"
  /\ IF successful_chunks = 0
     THEN outcome' = [kind |-> "raised", error |-> "All chunks failed", warning |-> FALSE]
     ELSE outcome' = [kind |-> "returned", error |-> "none",
                      \* failure_rate > 0.5
                      warning |-> 2 * (Len(chunks) - successful_chunks) > Len(chunks)]
  /\ UNCHANGED <<inputVars, blob_name, category, extractVars, loopVars, storeVars, retry>>

\* process_blob is called again, against the same store
Rerun(urls) ==
  /\ pc = "done"
  /\ run < MaxRuns
  /\ run' = run + 1
  /\ event_time' = run + 1
  /\ blob_url' \in urls
  /\ pc' = "parse_url"
  /\ outcome' = NoOutcome
  /\ blob_name' = <<>>
  /\ category' = <<>>
  /\ invoked' = <<>>
  /\ client_constructed' = FALSE
  /\ raw_text' = <<>>
  /\ full_text' = <<>>
  /\ extracted_data' = NoData
  /\ chunks' = <<>>
  /\ i' = 0
  /\ entities' = <<>>
  /\ embedding' = <<>>
  /\ successful_chunks' = 0
  /\ chunk_errors' = <<>>
  /\ attempts' = <<>>
  /\ returned' = {}
  /\ written' = {}
  /\ retry' = Idle
  /\ UNCHANGED <<env, chunk_size, store, last_upsert, written_for, triggerVars>>

(***************************************************************************)
(* The retry wrappers called on their own.                                 *)
(***************************************************************************)
Delays == {1, 2}

\* safe_upsert(container, doc, max_retries, delay): one upsert_item of its loop
RetrySafeUpsert(answers) ==
  /\ pc = "retry"
  /\ retry.op = "safe_upsert"
  /\ retry.status = "running"
  /\ \E a \in answers :
       /\ Persist(a, CurrentDoc(embedding))
       /\ retry' = UpsertAttempt(retry, a)
  /\ UNCHANGED <<inputVars, blob_name, category, pc, outcome, extractVars, loopVars, written>>

\* call_openai_embedding(client, chunk, max_retries, delay): one request of its loop
RetryEmbedding(answers) ==
  /\ pc = "retry"
  /\ retry.op = "call_openai_embedding"
  /\ retry.status = "running"
  /\ \E a \in answers : retry' = EmbeddingAttempt(retry, a)
  /\ UNCHANGED <<inputVars, blob_name, category, pc, outcome, extractVars, loopVars, storeVars>>

\* azure_ner(text, max_retries, delay): one request of its loop
RetryNer(answers) ==
  /\ pc = "retry"
  /\ retry.op = "azure_ner"
  /\ retry.status = "running"
  /\ \E a \in answers : retry' = NerAttempt(retry, a)
  /\ UNCHANGED <<inputVars, blob_name, category, pc, outcome, extractVars, loopVars, storeVars>>

(***************************************************************************)
(* Inputs.                                                                 *)
(***************************************************************************)
\* blob names handed to extract_file
RouteNames ==
  {<<"a",".","p","d","f">>,
   <<"A",".","P","D","F">>,
   <<"a",".","d","o","c","x">>,
   <<"a",".","j","p","g">>,
   <<"a",".","j","p","e","g">>,
   <<"a",".","p","n","g">>,
   <<"a",".","b","m","p">>,
   <<"a",".","s","v","g">>,
   <<"a",".","c","s","v">>,
   <<"a",".","j","s","o","n">>,
   <<"a",".","t","x","t">>,
   <<"a",".","T","x","t">>,
   <<"a",".","e","x","e">>,
   <<"a",".","p","d","f",".","t","x","t">>,
   <<"a",".","t","x","t",".","p","d","f">>,
   <<"a",".","t","a","r",".","g","z">>,
   <<"p","d","f">>,
   <<"a",".">>,
   <<"a">>}

\* paths of the blob URLs handed to process_blob
RunUrls ==
  {<<"/","c","/","a",".","t","x","t">>,
   <<"/","c","/","d","/","b",".","c","s","v">>,
   <<"/","c","/","r",".","p","d","f">>,
   <<"/","c","/","x",".","e","x","e">>,
   <<"/","c">>}

\* blob URLs processed again and again: one file, and files whose names differ
RerunUrls ==
  {<<"/","c","/","a",".","t","x","t">>,
   <<"/","c","/","b",".","c","s","v">>}

FullEnv == [v \in EnvVars |-> "v"]

\* the environment with at most one variable unset
RunEnvs ==
  {FullEnv} \cup {[FullEnv EXCEPT ![v] = NoneValue] : v \in EnvVars}

\* the environment of the repeated runs
RerunEnvs == {FullEnv}

\* the environment with each Document Intelligence setting unset, empty or set
RouteEnvs ==
  {[FullEnv EXCEPT !["DOC_INTEL_ENDPOINT"] = e, !["DOC_INTEL_KEY"] = k] :
     e \in {NoneValue, "", "v"}, k \in {NoneValue, "", "v"}}

\* the environment a retry wrapper is called in
RetryEnvs ==
  {[FullEnv EXCEPT !["AZURE_LANGUAGE_ENDPOINT"] = e, !["AZURE_LANGUAGE_KEY"] = k] :
     e \in {NoneValue, "", "v"}, k \in {NoneValue, "v"}}

(***************************************************************************)
(* Specifications.                                                         *)
(***************************************************************************)
\* no HTTP request is being handled
NoRequest == [method |-> "none", body |-> "none", url |-> <<>>, code |-> "none"]
\* no Event Grid event is being handled
NoEvent == [json |-> "none", url |-> <<>>]
NoTriggerOutcome == [kind |-> "none", error |-> "none"]
NoResponse == [status_code |-> 0, body |-> [none |-> TRUE]]

\* what every specification starts from: nothing extracted yet, an empty store
Fresh ==
  /\ req = NoRequest
  /\ hpc = "none"
  /\ blob_list = <<>>
  /\ blob_pos = 0
  /\ processed_count = 0
  /\ failed_count = 0
  /\ blob_errors = <<>>
  /\ response = NoResponse
  /\ azeventgrid = NoEvent
  /\ trigger_outcome = NoTriggerOutcome
  /\ run = 1
  /\ event_time = 1
  /\ category = <<>>
  /\ client_constructed = FALSE
  /\ raw_text = <<>>
  /\ full_text = <<>>
  /\ i = 0
  /\ entities = <<>>
  /\ embedding = <<>>
  /\ successful_chunks = 0
  /\ chunk_errors = <<>>
  /\ attempts = <<>>
  /\ returned = {}
  /\ written = {}
  /\ store = {}
  /\ last_upsert = <<>>
  /\ written_for = <<>>
  /\ outcome = NoOutcome

\* process_blob(blob_url, event_time) is called once
Init ==
  /\ Fresh
  /\ invoked = <<>>
  /\ chunk_size = ChunkSize
  /\ extracted_data = NoData
  /\ pc = "parse_url"
  /\ env \in RunEnvs
  /\ blob_url \in RunUrls
  /\ blob_name = <<>>
  /\ chunks = <<>>
  /\ retry = Idle

Next ==
  \/ ParseUrl
  \/ ValidateEnv
  \/ InitClients
  \/ DownloadBlob
  \/ ExtractFile
  \/ ExtractorRun(RawTexts(RunChars, MaxTextLen))
  \/ CleanText
  \/ ExtractorReturn
  \/ GetChunks
  \/ SkipEmptyChunk
  \/ EnterChunk
  \/ AzureNer(NerAnswersRun)
  \/ CallOpenaiEmbedding(EmbeddingAnswersRun)
  \/ SafeUpsert(UpsertAnswersRun)
  \/ ChunkExcept
  \/ Aggregate

Spec == Init /\ [][Next]_vars

\* extract_file(blob_data, blob_name, doc_intel_endpoint, doc_intel_key) is called
InitRoute ==
  /\ Fresh
  /\ invoked = <<>>
  /\ chunk_size = ChunkSize
  /\ extracted_data = NoData
  /\ pc = "extract_file"
  /\ env \in RouteEnvs
  /\ blob_url = <<>>
  /\ blob_name \in RouteNames
  /\ chunks = <<>>
  /\ retry = Idle

NextRoute ==
  \/ ExtractFile
  \/ ExtractorRun(RawTexts(RunChars, 1))
  \/ CleanText
  \/ ExtractorReturn

SpecRoute == InitRoute /\ [][NextRoute]_vars

\* one of the retry wrappers is called, with any budget up to MaxRetryBudget
InitRetry ==
  /\ Fresh
  /\ invoked = <<>>
  /\ chunk_size = ChunkSize
  /\ extracted_data = NoData
  /\ pc = "retry"
  /\ env \in RetryEnvs
  /\ blob_url = <<>>
  /\ blob_name = <<"a", ".", "t", "x", "t">>
  /\ chunks \in {<<(<<"a">>)>>, <<(<<" ">>)>>, <<(<<>>)>>}
  /\ \E m \in 0..MaxRetryBudget, d \in Delays :
       \/ /\ retry = Begin("safe_upsert", m, d, "Cosmos DB upsert failed after all retries")
          /\ env = FullEnv
          /\ chunks[1] = <<"a">>
       \/ /\ retry = EmbeddingBegin(chunks[1], m, d)
          /\ env = FullEnv
       \/ /\ retry = NerBegin(Getenv("AZURE_LANGUAGE_ENDPOINT"),
                              Getenv("AZURE_LANGUAGE_KEY"), m, d)
          /\ chunks[1] = <<"a">>

NextRetry ==
  \/ RetrySafeUpsert(UpsertAnswersAll)
  \/ RetryEmbedding(EmbeddingAnswersAll)
  \/ RetryNer(NerAnswersAll)

SpecRetry == InitRetry /\ [][NextRetry]_vars

\* the same call run to its end: the wrapper is synchronous code, so a call that can
\* take a step (the collaborator answers, time.sleep returns) takes it
SpecRetryLive == InitRetry /\ [][NextRetry]_vars /\ WF_vars(NextRetry)

\* process_blob is called MaxRuns times against one store
InitRerun ==
  /\ Fresh
  /\ invoked = <<>>
  /\ chunk_size = ChunkSize
  /\ extracted_data = NoData
  /\ pc = "parse_url"
  /\ env \in RerunEnvs
  /\ blob_url \in RerunUrls
  /\ blob_name = <<>>
  /\ chunks = <<>>
  /\ retry = Idle

NextRerun ==
  \/ ParseUrl
  \/ ValidateEnv
  \/ InitClients
  \/ DownloadBlob
  \/ ExtractFile
  \/ ExtractorRun(RerunTexts(MaxRerunTextLen))
  \/ CleanText
  \/ ExtractorReturn
  \/ GetChunks
  \/ SkipEmptyChunk
  \/ EnterChunk
  \/ AzureNer(NerAnswersRerun)
  \/ CallOpenaiEmbedding(EmbeddingAnswersRerun)
  \/ SafeUpsert(UpsertAnswersRerun)
  \/ ChunkExcept
  \/ Aggregate
  \/ Rerun(RerunUrls)

SpecRerun == InitRerun /\ [][NextRerun]_vars

\* blob URLs whose names differ: a blob, a blob of the same file name in a virtual
\* folder, and one in another container
IdUrls ==
  {<<"/","c","/","a",".","t","x","t">>,
   <<"/","c","/","d","/","a",".","t","x","t">>,
   <<"/","k","/","a",".","t","x","t">>}

\* process_blob is called MaxRuns times against one store, for blobs of IdUrls
InitIds ==
  /\ Fresh
  /\ invoked = <<>>
  /\ chunk_size = ChunkSize
  /\ extracted_data = NoData
  /\ pc = "parse_url"
  /\ env \in RerunEnvs
  /\ blob_url \in IdUrls
  /\ blob_name = <<>>
  /\ chunks = <<>>
  /\ retry = Idle

NextIds ==
  \/ ParseUrl
  \/ ValidateEnv
  \/ InitClients
  \/ DownloadBlob
  \/ ExtractFile
  \/ ExtractorRun(IdTexts)
  \/ CleanText
  \/ ExtractorReturn
  \/ GetChunks
  \/ SkipEmptyChunk
  \/ EnterChunk
  \/ AzureNer(NerAnswersRerun)
  \/ CallOpenaiEmbedding(EmbeddingAnswersRerun)
  \/ SafeUpsert(UpsertAnswersRerun)
  \/ ChunkExcept
  \/ Aggregate
  \/ Rerun(IdUrls)

SpecIds == InitIds /\ [][NextIds]_vars

\* the blob whose successive versions are processed
VersionUrl == <<"/","c","/","a",".","t","x","t">>

\* after a run that wrote every chunk, process_blob is called for the next version of
\* the same blob
RerunAfterSuccess ==
  /\ outcome.kind = "returned"
  /\ successful_chunks = Len(chunks)
  /\ Rerun({blob_url})

\* process_blob is called for the first version of the blob
InitVersions ==
  /\ Fresh
  /\ invoked = <<>>
  /\ chunk_size = ChunkSize
  /\ extracted_data = NoData
  /\ pc = "parse_url"
  /\ env \in RerunEnvs
  /\ blob_url = VersionUrl
  /\ blob_name = <<>>
  /\ chunks = <<>>
  /\ retry = Idle

NextVersions ==
  \/ ParseUrl
  \/ ValidateEnv
  \/ InitClients
  \/ DownloadBlob
  \/ ExtractFile
  \/ ExtractorRun(RerunTexts(MaxRerunTextLen))
  \/ CleanText
  \/ ExtractorReturn
  \/ GetChunks
  \/ SkipEmptyChunk
  \/ EnterChunk
  \/ AzureNer(NerAnswersRerun)
  \/ CallOpenaiEmbedding(EmbeddingAnswersRerun)
  \/ SafeUpsert(UpsertAnswersRerun)
  \/ ChunkExcept
  \/ Aggregate
  \/ RerunAfterSuccess

SpecVersions == InitVersions /\ [][NextVersions]_vars

\* the characters of the texts an extractor reads when it is called on its own
ExtractChars == WordChars \cup {" ", "\n"} \cup {"!"} \cup OtherChars

\* the extractors that take a chunk_size
Chunking == {e \in DOMAIN ExtractorKind : ExtractorKind[e].field = "text_chunks"}

\* one extractor is called on its own: extract_pdf, extract_docx and extract_text with
\* any chunk_size up to MaxChunkSize, the others (which take none) at the default
InitExtract ==
  /\ Fresh
  /\ extracted_data = NoData
  /\ pc = "extractor"
  /\ env = FullEnv
  /\ blob_url = <<>>
  /\ blob_name = <<>>
  /\ chunks = <<>>
  /\ retry = Idle
  /\ \E e \in DOMAIN ExtractorKind :
       /\ invoked = <<e>>
       /\ chunk_size \in (IF e \in Chunking THEN 1..MaxChunkSize ELSE {ChunkSize})

NextExtract ==
  \/ ExtractorRun(RawTexts(ExtractChars, MaxRawLen))
  \/ CleanText
  \/ ExtractorReturn
  \/ GetChunks

SpecExtract == InitExtract /\ [][NextExtract]_vars

\* lists of at most n strings of at most one character
ChunkLists(n) == UNION {[1..k -> RawTexts({"a", "b"}, 1)] : k \in 0..n}

\* the dictionaries handed to get_chunks: "text_chunks" and "text" each absent or
\* present, empty or not
Dictionaries ==
  {NoData}
  \cup {[type |-> "none", text_chunks |-> l] : l \in ChunkLists(MaxDictLen)}
  \cup {[type |-> "none", text |-> t] : t \in RawTexts({"a", "b"}, MaxDictLen)}
  \cup {[type |-> "none", text_chunks |-> l, text |-> t] :
          l \in ChunkLists(MaxDictLen), t \in RawTexts({"a", "b"}, MaxDictLen)}

\* get_chunks is called on a dictionary
InitChunks ==
  /\ Fresh
  /\ pc = "get_chunks"
  /\ env = FullEnv
  /\ blob_url = <<>>
  /\ blob_name = <<>>
  /\ chunks = <<>>
  /\ retry = Idle
  /\ invoked = <<>>
  /\ chunk_size = ChunkSize
  /\ extracted_data \in Dictionaries

NextChunks == GetChunks

SpecChunks == InitChunks /\ [][NextChunks]_vars

(***************************************************************************)
(* process_existing_blobs: the HTTP trigger that replays a container.      *)
(***************************************************************************)
\* blob_errors[:5]
ErrorsShown == 5

\* s[:n]
FirstN(s, n) == SubSeq(s, 1, IF Len(s) < n THEN Len(s) ELSE n)

\* func.HttpResponse(json.dumps(body), status_code=code)
HttpResponse(body, code) == [status_code |-> code, body |-> body]

\* the variables of a process_blob call
callVars == <<blob_url, event_time, run, blob_name, category, pc, outcome, extractVars,
              loopVars, written, retry>>

\* process_blob(url, <the time now>) is called: its locals are fresh
StartProcessBlob(url) ==
  /\ run' = run + 1
  /\ event_time' = run + 1
  /\ blob_url' = url
  /\ pc' = "parse_url"
  /\ outcome' = NoOutcome
  /\ blob_name' = <<>>
  /\ category' = <<>>
  /\ invoked' = <<>>
  /\ client_constructed' = FALSE
  /\ raw_text' = <<>>
  /\ full_text' = <<>>
  /\ extracted_data' = NoData
  /\ chunks' = <<>>
  /\ i' = 0
  /\ entities' = <<>>
  /\ embedding' = <<>>
  /\ successful_chunks' = 0
  /\ chunk_errors' = <<>>
  /\ attempts' = <<>>
  /\ returned' = {}
  /\ written' = {}
  /\ retry' = Idle
  /\ UNCHANGED <<env, chunk_size, store, last_upsert, written_for>>

\* process_blob has returned or raised into its caller: its locals are gone
EndProcessBlob ==
  /\ pc' = "idle"
  /\ outcome' = NoOutcome
  /\ blob_name' = <<>>
  /\ category' = <<>>
  /\ invoked' = <<>>
  /\ client_constructed' = FALSE
  /\ full_text' = <<>>
  /\ extracted_data' = NoData
  /\ chunks' = <<>>
  /\ i' = 0
  /\ entities' = <<>>
  /\ embedding' = <<>>
  /\ successful_chunks' = 0
  /\ chunk_errors' = <<>>
  /\ attempts' = <<>>
  /\ returned' = {}
  /\ written' = {}
  /\ UNCHANGED <<env, chunk_size, store, last_upsert, written_for, blob_url, event_time, run, raw_text,
                 retry>>

\* the path of the URL the batch builds for a blob of container "c"
BlobUrl(name) == <<"/", "c", "/">> \o name

\* the URLs a posted blob event carries: a text file, a file of an unsupported type,
\* a PDF
EventUrls == {<<"/", "c", "/", "e", ".", "t", "x", "t">>,
              <<"/", "c", "/", "x", ".", "e", "x", "e">>,
              <<"/", "c", "/", "r", ".", "p", "d", "f">>}

\* event['data']['validationCode'] of a validation event
ValidationCodes == {"code1", "code2"}

\* the exceptions of process_blob that are ValueErrors
ValueErrors == {"ValueError: Unsupported file type",
                "ValueError: Document Intelligence endpoint and key required for PDF",
                "ValueError: extraction failed"}

\* a variant without the validation handshake: the validation event is treated as an
\* event of another type
HandlePostIgnoresValidation ==
  /\ hpc = "start"
  /\ IF FALSE
     THEN /\ response' = HttpResponse([validationResponse |-> req.code], 200)
          /\ hpc' = "done"
          /\ UNCHANGED <<callVars, env, chunk_size, storeVars>>
     ELSE IF req.method = "POST" /\ req.body \in {"blob_created", "blob_deleted"}
     THEN /\ StartProcessBlob(req.url)
          /\ hpc' = "event"
          /\ UNCHANGED response
     ELSE /\ hpc' = "batch"
          /\ UNCHANGED <<response, callVars, env, chunk_size, storeVars>>
  /\ UNCHANGED <<azeventgrid, trigger_outcome, req, blob_list, blob_pos, processed_count, failed_count, blob_errors>>

\* the first part of process_existing_blobs: a POST request is looked at for an Event
\* Grid event; anything else goes on to the replay of the container
HandlePost ==
  /\ hpc = "start"
  /\ IF req.method = "POST" /\ req.body = "validation"
     THEN /\ response' = HttpResponse([validationResponse |-> req.code], 200)
          /\ hpc' = "done"
          /\ UNCHANGED <<callVars, env, chunk_size, storeVars>>
     ELSE IF req.method = "POST" /\ req.body \in {"blob_created", "blob_deleted"}
     THEN /\ StartProcessBlob(req.url)
          /\ hpc' = "event"
          /\ UNCHANGED response
     ELSE /\ hpc' = "batch"
          /\ UNCHANGED <<response, callVars, env, chunk_size, storeVars>>
  /\ UNCHANGED <<azeventgrid, trigger_outcome, req, blob_list, blob_pos, processed_count, failed_count, blob_errors>>

\* process_blob of the posted event is over: 200 when it returned; a ValueError or
\* TypeError it raised is caught by the except clause around the POST block, which
\* passes on to the replay of the container; any other exception reaches the handler
\* at the end of the function, which answers 500
EventProcessed ==
  /\ hpc = "event"
  /\ pc = "done"
  /\ IF outcome.kind = "returned"
     THEN /\ response' = HttpResponse([status |-> "success", message |-> "Event processed"],
                                      200)
          /\ hpc' = "done"
     ELSE IF outcome.error \in ValueErrors
     THEN /\ hpc' = "batch"
          /\ UNCHANGED response
     ELSE /\ response' = HttpResponse([error |-> "Error processing existing blobs"], 500)
          /\ hpc' = "done"
  /\ EndProcessBlob
  /\ UNCHANGED <<azeventgrid, trigger_outcome, req, blob_list, blob_pos, processed_count,
                 failed_count, blob_errors>>

\* the connection string is read and the container client made
BatchSetup ==
  /\ hpc = "batch"
  /\ IF ~Truthy(Getenv("AzureWebJobsStorage"))
     THEN /\ response' = HttpResponse(
                 [error |-> "AzureWebJobsStorage connection string not found"], 500)
          /\ hpc' = "done"
     ELSE \/ /\ hpc' = "list_blobs"
             /\ UNCHANGED response
          \/ /\ response' = HttpResponse([error |-> "Error processing existing blobs"], 500)
             /\ hpc' = "done"
  /\ UNCHANGED <<azeventgrid, trigger_outcome, req, blob_list, blob_pos, processed_count, failed_count, blob_errors,
                 callVars, env, chunk_size, storeVars>>

\* blob_list = list(container_client.list_blobs()): it raises, or lists `names`
ListBlobs(lists) ==
  /\ hpc = "list_blobs"
  /\ \/ /\ response' = HttpResponse([error |-> "Failed to list blobs in container"], 500)
        /\ hpc' = "done"
        /\ UNCHANGED blob_list
     \/ \E names \in lists :
          /\ blob_list' = names
          /\ IF names = <<>>
             THEN /\ response' = HttpResponse([error |-> "No blobs found in container"], 404)
                  /\ hpc' = "done"
             ELSE /\ hpc' = "loop"
                  /\ UNCHANGED response
  /\ UNCHANGED <<azeventgrid, trigger_outcome, req, blob_pos, processed_count, failed_count, blob_errors,
                 callVars, env, chunk_size, storeVars>>

\* for blob in blob_list: process_blob(blob_url, now) is called for the next blob
CallProcessBlob ==
  /\ hpc = "loop"
  /\ blob_pos < Len(blob_list)
  /\ StartProcessBlob(BlobUrl(blob_list[blob_pos + 1]))
  /\ hpc' = "process_blob"
  /\ UNCHANGED <<azeventgrid, trigger_outcome, req, blob_list, blob_pos, processed_count, failed_count, blob_errors,
                 response>>

\* a variant in which the failure of a blob leaves the loop: the handler at the end of
\* the function answers 500
BlobProcessedAborts ==
  /\ hpc = "process_blob"
  /\ pc = "done"
  /\ IF outcome.kind = "returned"
     THEN /\ processed_count' = processed_count + 1
          /\ blob_pos' = blob_pos + 1
          /\ hpc' = "loop"
          /\ UNCHANGED <<failed_count, blob_errors, response>>
     ELSE /\ response' = HttpResponse([error |-> "Error processing existing blobs"], 500)
          /\ hpc' = "done"
          /\ UNCHANGED <<processed_count, failed_count, blob_errors, blob_pos>>
  /\ EndProcessBlob
  /\ UNCHANGED <<azeventgrid, trigger_outcome, req, blob_list>>

\* process_blob of the current blob is over: it is counted as processed, or as failed
\* with its message (of which the blob's name is kept) appended to blob_errors
BlobProcessed ==
  /\ hpc = "process_blob"
  /\ pc = "done"
  /\ IF outcome.kind = "returned"
     THEN /\ processed_count' = processed_count + 1
          /\ UNCHANGED <<failed_count, blob_errors>>
     ELSE /\ failed_count' = failed_count + 1
          /\ blob_errors' = Append(blob_errors, [blob |-> blob_list[blob_pos + 1]])
          /\ UNCHANGED processed_count
  /\ blob_pos' = blob_pos + 1
  /\ hpc' = "loop"
  /\ EndProcessBlob
  /\ UNCHANGED <<azeventgrid, trigger_outcome, req, blob_list, response>>

\* the result dictionary built after the loop
Result ==
  LET total_blobs == Len(blob_list) IN
  [status |-> IF 2 * failed_count < total_blobs   \* failure_rate < 0.5
              THEN "completed" ELSE "completed_with_errors",
   processed_count |-> processed_count,
   failed_count |-> failed_count,
   total_blobs |-> total_blobs,
   container |-> "c",
   errors |-> FirstN(blob_errors, ErrorsShown)]

\* a variant that warns from a failure rate of 0.8 on instead of above 0.8
RespondWarnsAtThreshold ==
  /\ hpc = "loop"
  /\ blob_pos = Len(blob_list)
  /\ response' =
       (IF processed_count = 0 /\ failed_count > 0
        THEN HttpResponse(Result @@ [error |-> "All blobs failed to process"], 500)
        ELSE IF 5 * failed_count >= 4 * Len(blob_list)
        THEN HttpResponse(Result @@ [warning |-> "High failure rate"], 206)
        ELSE HttpResponse(Result, 200))
  /\ hpc' = "done"
  /\ UNCHANGED <<azeventgrid, trigger_outcome, req, blob_list, blob_pos, processed_count,
                 failed_count, blob_errors, callVars, env, chunk_size, storeVars>>

\* after the loop: the response is chosen from the counts
Respond ==
  /\ hpc = "loop"
  /\ blob_pos = Len(blob_list)
  /\ response' =
       (IF processed_count = 0 /\ failed_count > 0
        THEN HttpResponse(Result @@ [error |-> "All blobs failed to process"], 500)
        ELSE IF 5 * failed_count > 4 * Len(blob_list)   \* failure_rate > 0.8
        THEN HttpResponse(Result @@ [warning |-> "High failure rate"], 206)
        ELSE HttpResponse(Result, 200))
  /\ hpc' = "done"
  /\ UNCHANGED <<azeventgrid, trigger_outcome, req, blob_list, blob_pos, processed_count, failed_count, blob_errors,
                 callVars, env, chunk_size, storeVars>>

\* the names list_blobs returns: the first n of a fixed sequence of distinct names
BlobLetters == <<"a", "b", "c", "d", "e", "f", "g", "h">>
BlobLists(n) == {[k \in 1..m |-> <<BlobLetters[k], ".", "t", "x", "t">>] : m \in 0..n}

\* what the extractor reads from a blob of the container: nothing, or a text that
\* cleans to a blank and a word
BatchTexts == {<<>>, <<"#", " ", "a">>}

\* the answers of the collaborators while a container is replayed
EmbeddingAnswersBatch == {Ok(<<1>>), Exc(MsgOther)}

\* the environment of the trigger
BatchEnvs == {FullEnv,
              [FullEnv EXCEPT !["COSMOS_KEY"] = NoneValue],
              [FullEnv EXCEPT !["AzureWebJobsStorage"] = NoneValue],
              [FullEnv EXCEPT !["DOC_INTEL_KEY"] = NoneValue]}

\* the requests process_existing_blobs is called with: a GET, or a POST whose body is
\* no JSON, an event of another type, the Event Grid validation event, or a blob event
Requests ==
  {[method |-> "GET", body |-> "none", url |-> <<>>, code |-> "none"]}
  \cup {[method |-> "POST", body |-> b, url |-> <<>>, code |-> "none"] :
          b \in {"invalid_json", "other_event"}}
  \cup {[method |-> "POST", body |-> "validation", url |-> <<>>, code |-> c] :
          c \in ValidationCodes}
  \cup {[method |-> "POST", body |-> b, url |-> u, code |-> "none"] :
          b \in {"blob_created", "blob_deleted"}, u \in EventUrls}

\* process_existing_blobs(req) is called
InitBatch ==
  /\ hpc = "start"
  /\ req \in Requests
  /\ azeventgrid = NoEvent
  /\ trigger_outcome = NoTriggerOutcome
  /\ blob_list = <<>>
  /\ blob_pos = 0
  /\ processed_count = 0
  /\ failed_count = 0
  /\ blob_errors = <<>>
  /\ response = NoResponse
  /\ env \in BatchEnvs
  /\ chunk_size = ChunkSize
  /\ run = 0
  /\ event_time = 0
  /\ blob_url = <<>>
  /\ blob_name = <<>>
  /\ category = <<>>
  /\ pc = "idle"
  /\ outcome = NoOutcome
  /\ invoked = <<>>
  /\ client_constructed = FALSE
  /\ raw_text = <<>>
  /\ full_text = <<>>
  /\ extracted_data = NoData
  /\ chunks = <<>>
  /\ i = 0
  /\ entities = <<>>
  /\ embedding = <<>>
  /\ successful_chunks = 0
  /\ chunk_errors = <<>>
  /\ attempts = <<>>
  /\ returned = {}
  /\ written = {}
  /\ store = {}
  /\ last_upsert = <<>>
  /\ written_for = <<>>
  /\ retry = Idle

NextBatch ==
  \/ HandlePost
  \/ EventProcessed
  \/ BatchSetup
  \/ ListBlobs(BlobLists(MaxBlobs))
  \/ CallProcessBlob
  \/ BlobProcessed
  \/ Respond
  \/ ParseUrl
  \/ ValidateEnv
  \/ InitClients
  \/ DownloadBlob
  \/ ExtractFile
  \/ ExtractorRun(BatchTexts)
  \/ CleanText
  \/ ExtractorReturn
  \/ GetChunks
  \/ SkipEmptyChunk
  \/ EnterChunk
  \/ AzureNer(NerAnswersRerun)
  \/ CallOpenaiEmbedding(EmbeddingAnswersBatch)
  \/ SafeUpsert(UpsertAnswersRerun)
  \/ ChunkExcept
  \/ Aggregate

SpecBatch == InitBatch /\ [][NextBatch]_vars

(***************************************************************************)
(* triggerevent: the Event Grid trigger.                                   *)
(***************************************************************************)
\* the events triggerevent is called with: get_json raises, the data carries no url,
\* or the data carries the URL of a blob
Events ==
  {[json |-> "raises", url |-> <<>>], [json |-> "ok", url |-> <<>>]}
  \cup {[json |-> "ok", url |-> u] : u \in RunUrls}

\* triggerevent up to the call of process_blob: an exception of get_json is logged and
\* raised again; without a blob URL the trigger logs an error and returns
TriggerEvent ==
  /\ hpc = "start"
  /\ IF azeventgrid.json = "raises"
     THEN /\ trigger_outcome' = [kind |-> "raised", error |-> "get_json failed"]
          /\ hpc' = "done"
          /\ UNCHANGED <<callVars, env, chunk_size, storeVars>>
     ELSE IF azeventgrid.url = <<>>
     THEN /\ trigger_outcome' = [kind |-> "returned", error |-> "none"]
          /\ hpc' = "done"
          /\ UNCHANGED <<callVars, env, chunk_size, storeVars>>
     ELSE /\ StartProcessBlob(azeventgrid.url)
          /\ hpc' = "trigger_process"
          /\ UNCHANGED trigger_outcome
  /\ UNCHANGED <<azeventgrid, req, blob_list, blob_pos, processed_count, failed_count,
                 blob_errors, response>>

\* a variant whose except clause logs the exception of process_blob and returns
TriggerDoneSwallows ==
  /\ hpc = "trigger_process"
  /\ pc = "done"
  /\ trigger_outcome' = [kind |-> "returned", error |-> "none"]
  /\ hpc' = "done"
  /\ EndProcessBlob
  /\ UNCHANGED <<azeventgrid, req, blob_list, blob_pos, processed_count, failed_count,
                 blob_errors, response>>

\* process_blob is over: the trigger returns, or its except clause logs the exception
\* and raises it again
TriggerDone ==
  /\ hpc = "trigger_process"
  /\ pc = "done"
  /\ trigger_outcome' = (IF outcome.kind = "returned"
                         THEN [kind |-> "returned", error |-> "none"]
                         ELSE [kind |-> "raised", error |-> outcome.error])
  /\ hpc' = "done"
  /\ EndProcessBlob
  /\ UNCHANGED <<azeventgrid, req, blob_list, blob_pos, processed_count, failed_count,
                 blob_errors, response>>

\* triggerevent(azeventgrid) is called
InitTrigger ==
  /\ hpc = "start"
  /\ azeventgrid \in Events
  /\ trigger_outcome = NoTriggerOutcome
  /\ req = NoRequest
  /\ blob_list = <<>>
  /\ blob_pos = 0
  /\ processed_count = 0
  /\ failed_count = 0
  /\ blob_errors = <<>>
  /\ response = NoResponse
  /\ env \in BatchEnvs
  /\ chunk_size = ChunkSize
  /\ run = 0
  /\ event_time = 0
  /\ blob_url = <<>>
  /\ blob_name = <<>>
  /\ category = <<>>
  /\ pc = "idle"
  /\ outcome = NoOutcome
  /\ invoked = <<>>
  /\ client_constructed = FALSE
  /\ raw_text = <<>>
  /\ full_text = <<>>
  /\ extracted_data = NoData
  /\ chunks = <<>>
  /\ i = 0
  /\ entities = <<>>
  /\ embedding = <<>>
  /\ successful_chunks = 0
  /\ chunk_errors = <<>>
  /\ attempts = <<>>
  /\ returned = {}
  /\ written = {}
  /\ store = {}
  /\ last_upsert = <<>>
  /\ written_for = <<>>
  /\ retry = Idle

NextTrigger ==
  \/ TriggerEvent
  \/ TriggerDone
  \/ ParseUrl
  \/ ValidateEnv
  \/ InitClients
  \/ DownloadBlob
  \/ ExtractFile
  \/ ExtractorRun(BatchTexts)
  \/ CleanText
  \/ ExtractorReturn
  \/ GetChunks
  \/ SkipEmptyChunk
  \/ EnterChunk
  \/ AzureNer(NerAnswersRerun)
  \/ CallOpenaiEmbedding(EmbeddingAnswersBatch)
  \/ SafeUpsert(UpsertAnswersRerun)
  \/ ChunkExcept
  \/ Aggregate

SpecTrigger == InitTrigger /\ [][NextTrigger]_vars

(***************************************************************************)
(* Properties of extract_file (checked under SpecRoute).                   *)
(***************************************************************************)
\* the lower-cased text after the last '.' of a name (the whole name without a '.')
AfterLastDot(name) ==
  LET dots == {k \in 1..Len(name) : name[k] = "."} IN
  IF dots = {} THEN Lower(name)
  ELSE Lower(SubSeq(name, (CHOOSE k \in dots : \A j \in dots : j <= k) + 1, Len(name)))

\* the routing table the specification states
RoutingTable(ext) ==
  IF ext = <<"p","d","f">> THEN "extract_pdf"
  ELSE IF ext = <<"d","o","c","x">> THEN "extract_docx"
  ELSE IF ext \in {<<"j","p","g">>, <<"j","p","e","g">>, <<"p","n","g">>,
                   <<"b","m","p">>, <<"s","v","g">>} THEN "extract_image_ocr"
  ELSE IF ext = <<"c","s","v">> THEN "extract_csv"
  ELSE IF ext = <<"j","s","o","n">> THEN "extract_json"
  ELSE IF ext = <<"t","x","t">> THEN "extract_text"
  ELSE "unsupported"

Dispatched == pc # "extract_file"

PdfCredentialsMissing ==
  \/ Getenv("DOC_INTEL_ENDPOINT") \in {NoneValue, ""}
  \/ Getenv("DOC_INTEL_KEY") \in {NoneValue, ""}

UnsupportedRaised ==
  /\ invoked = <<>>
  /\ outcome.kind = "raised"
  /\ outcome.error = "ValueError: Unsupported file type"

MissingCredentialsRaised ==
  /\ invoked = <<>>
  /\ outcome.kind = "raised"
  /\ outcome.error = "ValueError: Document Intelligence endpoint and key required for PDF"

\* C1 as stated: once extract_file has dispatched, a name with a supported extension
\* has had exactly one extractor invoked, the one of the routing table, and any other
\* name has raised 'Unsupported file type' with no extractor invoked.
C1_AsStated ==
  Dispatched =>
    LET target == RoutingTable(AfterLastDot(blob_name)) IN
    IF target = "unsupported" THEN UnsupportedRaised ELSE invoked = <<target>>

\* C1 amended: the same, except that a pdf name with a missing Document Intelligence
\* endpoint or key has no extractor invoked and raises the missing-credentials error.
C1_RoutesByExtension ==
  Dispatched =>
    LET target == RoutingTable(AfterLastDot(blob_name)) IN
    IF target = "unsupported" THEN UnsupportedRaised
    ELSE IF target = "extract_pdf" /\ PdfCredentialsMissing THEN MissingCredentialsRaised
    ELSE invoked = <<target>> /\ outcome.error # "ValueError: Unsupported file type"

\* C1 witness: an upper-case name, A.PDF, was routed to extract_pdf, which returned
C1_Witness ==
  /\ pc = "get_chunks"
  /\ blob_name = <<"A", ".", "P", "D", "F">>
  /\ invoked = <<"extract_pdf">>
  /\ extracted_data.type = "pdf"

\* C2: for a pdf name with the endpoint or the key empty or absent, extract_file
\* raises the missing-credentials error, extract_pdf is never called and the
\* Document Intelligence client is never constructed.
C2_PdfFailsFastWithoutCredentials ==
  (Dispatched /\ AfterLastDot(blob_name) = <<"p","d","f">> /\ PdfCredentialsMissing) =>
    /\ MissingCredentialsRaised
    /\ pc = "done"
    /\ ~client_constructed

\* C2 witness: a.pdf with the endpoint set and the key empty has failed
C2_Witness ==
  /\ pc = "done"
  /\ blob_name = <<"a", ".", "p", "d", "f">>
  /\ Getenv("DOC_INTEL_ENDPOINT") = "v"
  /\ Getenv("DOC_INTEL_KEY") = ""
  /\ outcome.kind = "raised"

(***************************************************************************)
(* Properties of process_blob (checked under Spec).                        *)
(***************************************************************************)
SubCalls == {"azure_ner", "call_openai_embedding"}

\* the chunk indexes recorded in chunk_errors
ErrorChunks == {chunk_errors[k].chunk : k \in 1..Len(chunk_errors)}

\* C3: when process_blob ends, it has raised if and only if no chunk succeeded; with
\* at least one successful chunk it returns normally, successful_chunks counting the
\* chunks whose document was written, also when more than half of the chunks failed.
C3_FatalIffNoChunkSucceeded ==
  pc = "done" =>
    /\ (outcome.kind = "raised") = (written = {})
    /\ outcome.kind \in {"raised", "returned"}
    /\ chunks # <<>> => successful_chunks = Cardinality(written)
    /\ outcome.kind = "returned" =>
         outcome.warning = (2 * (Len(chunks) - successful_chunks) > Len(chunks))

\* C3 witness: 4 chunks, 3 of them failed in enrichment or persistence, 1 succeeded:
\* process_blob returned (with the warning) and successful_chunks = 1
C3_Witness ==
  /\ pc = "done"
  /\ Len(chunks) = 4
  /\ successful_chunks = 1
  /\ Len(chunk_errors) = 3
  /\ \A k \in 1..3 : chunk_errors[k].kind = "Failed to process chunk"
  /\ outcome.kind = "returned"
  /\ outcome.warning

\* the loop body has been entered for the chunk at index k (0-based)
Entered(k) ==
  \/ k < i
  \/ k = i /\ pc \in {"azure_ner", "call_openai_embedding", "safe_upsert", "except"}

\* C4: whatever happened to the other chunks, the loop body is entered exactly once
\* for every chunk up to the current one and never more than once; when the loop has
\* ended every chunk of the file has been attempted exactly once.
C4_EveryChunkAttemptedOnce ==
  /\ Len(attempts) \in {0, Len(chunks)}
  /\ \A k \in 1..Len(attempts) : attempts[k] = (IF Entered(k - 1) THEN 1 ELSE 0)
  /\ (pc = "done" /\ attempts # <<>>) => \A k \in 1..Len(chunks) : attempts[k] = 1

\* C4 witness: the first chunk failed and a later chunk was still processed and written
C4_Witness ==
  /\ pc = "done"
  /\ Len(chunks) >= 3
  /\ chunk_errors # <<>>
  /\ chunk_errors[1] = [chunk |-> 0, kind |-> "Failed to process chunk"]
  /\ 2 \in written
  /\ \A k \in 1..Len(chunks) : attempts[k] = 1

\* C5: safe_upsert is reached for a chunk only after azure_ner and
\* call_openai_embedding both returned for it in this iteration; the store holds a
\* document exactly for the chunks whose upsert succeeded; a chunk whose sub-call
\* failed has no document written and is recorded in chunk_errors.
C5_UpsertOnlyAfterBothSubCalls ==
  /\ pc = "safe_upsert" => SubCalls \subseteq returned
  /\ {d.chunk_index : d \in store} = written
  /\ (pc = "except" /\ ~(SubCalls \subseteq returned)) =>
        /\ i \notin written
        /\ \A d \in store : d.id # DocId(blob_name, i)
  /\ pc \in {"loop", "done"} =>
        \A k \in 0..(i - 1) : (k \in written) # (k \in ErrorChunks)

\* C5 witness: chunk 0 was written, then for chunk 1 azure_ner returned and the
\* embedding call failed: nothing is written for chunk 1
C5_Witness ==
  /\ pc = "except"
  /\ i = 1
  /\ returned = {"azure_ner"}
  /\ written = {0}
  /\ Cardinality(store) = 1

NerConfigured ==
  /\ Getenv("AZURE_LANGUAGE_ENDPOINT") \notin {NoneValue, ""}
  /\ Getenv("AZURE_LANGUAGE_KEY") \notin {NoneValue, ""}

\* the vectors the embedding collaborator answers with
EmbeddingVectors == {a.value : a \in {b \in EmbeddingAnswersAll : b.kind = "ok"}}

\* C9: without the entity-recognition endpoint or key, azure_ner returns [] without a
\* request and without raising, and every document written has entities = [] and the
\* vector the embedding call returned; with both configured, a chunk whose azure_ner
\* call returned carries the entities of the successful answer, and a failed call
\* raises (the chunk fails) instead of yielding [].
C9_NerSkippedWithoutCredentials ==
  /\ ~NerConfigured =>
       /\ pc = "azure_ner" =>
            (retry.status = "returned" /\ retry.calls = 0 /\ retry.value = <<>>)
       /\ pc \in {"call_openai_embedding", "safe_upsert", "except"} =>
            ("azure_ner" \in returned /\ entities = <<>>)
       /\ \A d \in store : d.entities = <<>> /\ d.embedding \in EmbeddingVectors
  /\ NerConfigured =>
       /\ pc = "azure_ner" => retry.status = "running"
       /\ (pc \in {"call_openai_embedding", "safe_upsert"}) => entities = <<SampleEntity>>
       /\ \A d \in store : d.entities = <<SampleEntity>>

\* C9 witness: no entity-recognition key, and a document with entities = [] and an
\* embedding was written
C9_Witness ==
  /\ pc = "done"
  /\ Getenv("AZURE_LANGUAGE_KEY") = NoneValue
  /\ \E d \in store : d.entities = <<>> /\ d.embedding = <<1>>

(***************************************************************************)
(* Properties of the retry wrappers (checked under SpecRetry).             *)
(***************************************************************************)
\* the throttling signal of each collaborator: HTTP 429 for the entity service, an
\* exception naming 429 or the provider's rate message for the other two
Throttling(op, a) ==
  IF op = "azure_ner" THEN a.kind = "http" /\ a.status = 429
  ELSE IF op = "call_openai_embedding"
       THEN a.kind = "exception" /\ a.msg \in {Msg429, MsgRateLimit}
       ELSE a.kind = "exception" /\ a.msg \in {Msg429, MsgRequestRate}

\* a failure that is not transient: for the entity service a status that is neither
\* a success nor 429, for the other two an exception that is no throttling signal
NonTransient(op, a) ==
  IF op = "azure_ner" THEN a.kind = "http" /\ a.status \notin {200, 429}
  ELSE a.kind = "exception" /\ ~Throttling(op, a)

\* the answers before the last one were all throttling signals
ThrottledBeforeLast ==
  \A k \in 1..(Len(retry.answers) - 1) : Throttling(retry.op, retry.answers[k])

AllThrottled ==
  \A k \in 1..Len(retry.answers) : Throttling(retry.op, retry.answers[k])

\* the wrapper asks its collaborator: azure_ner with endpoint and key, the embedding
\* call with a chunk that is not blank
AsksCollaborator ==
  /\ retry.op = "azure_ner" => NerConfigured
  /\ retry.op = "call_openai_embedding" => Strip(chunks[1]) # <<>>

\* C6: a call throttled on every attempt so far, with attempts left, goes on to the
\* next attempt; a call throttled on attempts 1..k-1 and answered successfully on
\* attempt k <= max_retries returns that answer's result after exactly k invocations
\* (and safe_upsert has stored the document).
C6_SucceedsOnAttemptK ==
  LET k == Len(retry.answers) IN
  /\ (AsksCollaborator /\ AllThrottled /\ k < retry.max_retries) =>
       retry.status = "running"
  /\ (k >= 1 /\ k <= retry.max_retries /\ ThrottledBeforeLast
         /\ retry.answers[k].kind = "ok") =>
       /\ retry.status = "returned"
       /\ retry.value = retry.answers[k].value
       /\ retry.calls = k
       /\ retry.op = "safe_upsert" => CurrentDoc(embedding) \in store

\* C6 witness: the embedding call, allowed 3 attempts, was throttled once and then
\* answered: it returned after exactly 2 invocations
C6_Witness ==
  /\ retry.op = "call_openai_embedding"
  /\ retry.max_retries = 3
  /\ retry.answers = <<Exc(Msg429), Ok(<<2>>)>>
  /\ retry.status = "returned"
  /\ retry.value = <<2>>
  /\ retry.calls = 2

\* C7: a call whose collaborator answers every invocation with the throttling signal
\* never returns; it is still running below max_retries invocations and has raised
\* at exactly max_retries invocations.
C7_ExhaustionAfterMaxRetries ==
  (AsksCollaborator /\ AllThrottled) =>
    /\ retry.status # "returned"
    /\ retry.calls = Len(retry.answers)
    /\ retry.calls <= retry.max_retries
    /\ (retry.status = "raised") = (retry.calls = retry.max_retries)
    /\ (retry.status = "running") = (retry.calls < retry.max_retries)

\* C7 witness: azure_ner, configured and allowed 3 attempts, got 429 three times and
\* raised
C7_Witness ==
  /\ retry.op = "azure_ner"
  /\ NerConfigured
  /\ retry.max_retries = 3
  /\ retry.answers = <<Http(429), Http(429), Http(429)>>
  /\ retry.status = "raised"
  /\ retry.calls = 3

\* C8: a non-transient failure ends the call at once: the call has raised, the
\* failing invocation is the last one, and no sleep follows it (every sleep belongs
\* to an earlier attempt); a call whose first answer is such a failure has invoked
\* its collaborator exactly once and never slept.
C8_NonTransientNotRetried ==
  LET k == Len(retry.answers) IN
  (k >= 1 /\ NonTransient(retry.op, retry.answers[k])) =>
    /\ retry.status = "raised"
    /\ retry.calls = k
    /\ Len(retry.sleeps) = k - 1
    /\ \A j \in 1..(k - 1) : ~NonTransient(retry.op, retry.answers[j])

\* C8 witness: safe_upsert, allowed 3 attempts, met an exception that is no
\* throttling signal on its first invocation and raised without sleeping
C8_Witness ==
  /\ retry.op = "safe_upsert"
  /\ retry.max_retries = 3
  /\ retry.answers = <<Exc(MsgOther)>>
  /\ retry.status = "raised"
  /\ retry.calls = 1
  /\ retry.sleeps = <<>>

(***************************************************************************)
(* Properties of repeated runs against one store (checked under SpecRerun).*)
(***************************************************************************)
\* the last document upsert_item accepted, for every id it accepted one for
LastUpserted == {last_upsert[id] : id \in DOMAIN last_upsert}

\* C10: documents of the same file and chunk index carry the same id in every run;
\* the store holds exactly one document per id ever written, and it is the document
\* of the most recent successful upsert of that id.
C10_ReprocessingIsIdempotent ==
  /\ \A d1, d2 \in store \cup LastUpserted :
       (d1.filename = d2.filename /\ d1.chunk_index = d2.chunk_index) => d1.id = d2.id
  /\ \A d1, d2 \in store : d1.id = d2.id => d1 = d2
  /\ {d.id : d \in store} = DOMAIN last_upsert
  /\ \A d \in store : d = last_upsert[d.id]

\* C10 witness: a.txt was processed twice; chunk 0 was written in both runs, with
\* embedding <<1>> first and <<2>> then, and the store holds one document for it, the
\* second; chunk 1 still holds the document of the first run
C10_Witness ==
  /\ run = 2
  /\ pc = "done"
  /\ blob_name = <<"a", ".", "t", "x", "t">>
  /\ Cardinality(store) = 2
  /\ \E d \in store :
       /\ d.id = <<"a", "_", "t", "x", "t", "_", "0">>
       /\ d.processed_at = 2
       /\ d.embedding = <<2>>
  /\ \E d \in store :
       /\ d.id = <<"a", "_", "t", "x", "t", "_", "1">>
       /\ d.processed_at = 1
       /\ d.embedding = <<1>>

(***************************************************************************)
(* Properties of the chunk normalisation and of the chunk loop             *)
(* (checked under Spec).                                                   *)
(***************************************************************************)
\* the extractor returned and get_chunks made no chunk of its result
NothingToEnrich ==
  /\ extracted_data # NoData
  /\ get_chunks(extracted_data) = <<>>
  /\ pc = "done"

\* no enrichment and no persistence call was made in this run
NoEnrichmentOrPersistence ==
  /\ attempts = <<>>
  /\ returned = {}
  /\ retry = Idle
  /\ written = {}
  /\ store = {}

\* C11 as stated: when get_chunks yields the empty sequence, process_blob ends
\* without raising and makes no enrichment or persistence call.
C11_AsStated ==
  NothingToEnrich => (outcome.kind = "returned" /\ NoEnrichmentOrPersistence)

\* C11 amended: when get_chunks yields the empty sequence, process_blob makes no
\* enrichment or persistence call and raises "No chunks extracted".
C11_EmptyChunksRaiseBeforeEnrichment ==
  NothingToEnrich =>
    /\ outcome.kind = "raised"
    /\ outcome.error = "No chunks extracted"
    /\ NoEnrichmentOrPersistence

\* C11 witness: a csv file whose cleaned text is empty was extracted, and process_blob
\* has ended
C11_Witness ==
  /\ NothingToEnrich
  /\ extracted_data.type = "csv"
  /\ extracted_data.text = <<>>
  /\ chunks = <<>>

(***************************************************************************)
(* Properties of get_chunks (checked under SpecChunks).                    *)
(***************************************************************************)
\* the dictionary has the key and a non-empty value under it
Present(data, key) == key \in DOMAIN data /\ Len(data[key]) > 0

\* C12: get_chunks returns text_chunks verbatim when it is present and non-empty,
\* whatever "text" holds; otherwise the one-element list of text when text is
\* non-empty; otherwise the empty list.
C12_GetChunksRule ==
  pc # "get_chunks" =>
    /\ Present(extracted_data, "text_chunks") => chunks = extracted_data.text_chunks
    /\ (~Present(extracted_data, "text_chunks") /\ Present(extracted_data, "text")) =>
         (Len(chunks) = 1 /\ chunks[1] = extracted_data.text)
    /\ (~Present(extracted_data, "text_chunks") /\ ~Present(extracted_data, "text")) =>
         chunks = <<>>

\* C12 witness: a dictionary with both keys non-empty, of which get_chunks returned the
\* two text_chunks
C12_Witness ==
  /\ pc = "loop"
  /\ Present(extracted_data, "text")
  /\ Present(extracted_data, "text_chunks")
  /\ extracted_data.text_chunks = <<(<<"a">>), (<<"b">>)>>
  /\ chunks = <<(<<"a">>), (<<"b">>)>>

(***************************************************************************)
(* Properties of the extractors (checked under SpecExtract).               *)
(***************************************************************************)
\* the strings of a list, concatenated in order
RECURSIVE Concat(_)
Concat(list) == IF list = <<>> THEN <<>> ELSE Head(list) \o Concat(Tail(list))

\* an extractor that slices has returned its dictionary
Sliced == pc \notin {"extractor", "clean_text", "extractor_return"}
          /\ "text_chunks" \in DOMAIN extracted_data

\* C13: the text_chunks of a cleaned text of length L at chunk size c, concatenated in
\* order, are the cleaned text; there are ceil(L/c) of them (none for L = 0); each but
\* the last has exactly c characters and the last has between 1 and c.
C13_FixedWindowLossless ==
  Sliced =>
    LET cs == extracted_data.text_chunks
        L == Len(full_text)
        c == chunk_size
    IN /\ Concat(cs) = full_text
       /\ Len(cs) * c >= L
       /\ Len(cs) * c < L + c
       /\ \A k \in 1..(Len(cs) - 1) : Len(cs[k]) = c
       /\ cs # <<>> => (Len(cs[Len(cs)]) >= 1 /\ Len(cs[Len(cs)]) <= c)

\* C13 witness: a cleaned text of 5 characters sliced at chunk size 2 gave chunks of
\* 2, 2 and 1 characters
C13_Witness ==
  /\ Sliced
  /\ chunk_size = 2
  /\ Len(full_text) = 5
  /\ Len(extracted_data.text_chunks) = 3
  /\ Len(extracted_data.text_chunks[1]) = 2
  /\ Len(extracted_data.text_chunks[2]) = 2
  /\ Len(extracted_data.text_chunks[3]) = 1


\* get_chunks has run on the dictionary an extractor returned
Normalised == pc \in {"loop", "done"} /\ extracted_data # NoData

\* the formats whose extractor slices its text
SlicedTypes == {"pdf", "docx", "text"}

Allowed(extractor) == WordChars \cup WhiteSpace \cup Punctuation[extractor]

\* clean_text has returned inside the extractor
Cleaned == pc = "extractor_return"

\* C15: the output of clean_text has no two consecutive whitespace characters, no
\* leading or trailing whitespace and no character outside the allow-list.
C15_AsStated ==
  Cleaned =>
    /\ \A k \in 1..(Len(full_text) - 1) :
         ~(full_text[k] \in WhiteSpace /\ full_text[k + 1] \in WhiteSpace)
    /\ full_text # <<>> =>
         (full_text[1] \notin WhiteSpace /\ full_text[Len(full_text)] \notin WhiteSpace)
    /\ \A k \in 1..Len(full_text) : full_text[k] \in Allowed(invoked[Len(invoked)])

(***************************************************************************)
(* Properties of the chunk loop of process_blob (checked under Spec).      *)
(***************************************************************************)
\* the chunk has no character other than whitespace
Blank(chunk) == \A k \in 1..Len(chunk) : chunk[k] \in WhiteSpace

\* process_blob stands inside the loop body of chunk i, at or after its first sub-call
InSubCalls == pc \in {"azure_ner", "call_openai_embedding", "safe_upsert", "except"}

\* the entries of chunk_errors recorded for the chunk at index k
ErrorsOf(k) == {e \in 1..Len(chunk_errors) : chunk_errors[e].chunk = k}

\* C16: for an empty or whitespace-only chunk process_blob makes no entity-extraction,
\* embedding or upsert call and does not fail it through the except branch; it records
\* exactly one entry for it in chunk_errors, does not count it as successful, and goes
\* on to the next chunk.
C16_BlankChunkSkipped ==
  /\ InSubCalls => ~Blank(chunks[i + 1])
  /\ \A k \in 0..(i - 1) :
       Blank(chunks[k + 1]) =>
         /\ Cardinality(ErrorsOf(k)) = 1
         /\ \A e \in ErrorsOf(k) : chunk_errors[e].kind = "Empty chunk"
         /\ k \notin written
         /\ \A d \in store : d.chunk_index # k
         /\ attempts[k + 1] = 1
         /\ successful_chunks <= i - 1
         /\ (pc = "done" /\ k + 1 < Len(chunks)) => attempts[k + 2] = 1

\* C16 witness: the first chunk was whitespace-only and was skipped, the second chunk
\* was processed and written after it
C16_Witness ==
  /\ pc = "done"
  /\ Len(chunks) = 2
  /\ chunks[1] = <<" ">>
  /\ chunk_errors = <<[chunk |-> 0, kind |-> "Empty chunk"]>>
  /\ written = {1}
  /\ successful_chunks = 1

\* C17: chunks are processed one after the other in the order of the sequence: every
\* document written carries as chunk_index the position of its text in chunks; while
\* chunk i is in its sub-calls (entity extraction, then embedding, then upsert, retries
\* included) every chunk before i is finished, written or recorded as failed, and no
\* chunk after i has been entered, written or recorded.
C17_SequentialInOrder ==
  /\ \A d \in store :
       /\ d.chunk_index \in 0..(Len(chunks) - 1)
       /\ d.text = chunks[d.chunk_index + 1]
       /\ d.id = DocId(blob_name, d.chunk_index)
  /\ retry.status = "running" =>
       /\ InSubCalls
       /\ retry.op = pc
  /\ pc = "call_openai_embedding" => "azure_ner" \in returned
  /\ pc = "safe_upsert" => {"azure_ner", "call_openai_embedding"} \subseteq returned
  /\ \A k \in 0..(Len(attempts) - 1) :
       /\ k < i => (attempts[k + 1] = 1 /\ (k \in written \/ k \in ErrorChunks))
       /\ k > i => (attempts[k + 1] = 0 /\ k \notin written /\ k \notin ErrorChunks)
       /\ (k = i /\ pc # "loop") => attempts[k + 1] = 1
  /\ \A e \in 1..(Len(chunk_errors) - 1) : chunk_errors[e].chunk < chunk_errors[e + 1].chunk

\* C17 witness: the upsert of the third chunk is being retried after a throttled
\* attempt, the first two chunks are written, the fourth has not been entered
C17_Witness ==
  /\ pc = "safe_upsert"
  /\ i = 2
  /\ written = {0, 1}
  /\ retry.status = "running"
  /\ retry.calls = 1
  /\ Len(chunks) = 4
  /\ attempts[4] = 0

SubCallRunning == retry.op \in SubCalls /\ retry.status = "running"

\* C20 as stated: process_blob calls entity extraction and embedding generation each
\* with 3 attempts and a base delay of 2 seconds.
C20_AsStated ==
  SubCallRunning => (retry.max_retries = 3 /\ retry.delay = 2)

\* C20 amended: each sub-call has its own max_retries and delay; process_blob calls
\* both at their defaults, 3 attempts each, with a base delay of 2 seconds for the
\* embedding call and of 1 second for azure_ner; each call starts its own count.
C20_DefaultBudgets ==
  /\ SubCallRunning =>
       /\ retry.max_retries = 3
       /\ retry.delay = (IF retry.op = "azure_ner" THEN 1 ELSE 2)
       /\ retry.calls < 3
       /\ retry.attempt = retry.calls
  /\ (retry.op = "azure_ner" /\ pc = "azure_ner") =>
       \A n \in 1..Len(retry.sleeps) : retry.sleeps[n] \in {1, n}

\* C20 witness: azure_ner, throttled twice, has slept 1 and 2 seconds and has one
\* attempt left
C20_Witness ==
  /\ pc = "azure_ner"
  /\ retry.status = "running"
  /\ retry.sleeps = <<1, 2>>
  /\ retry.calls = 2
  /\ Throttling("azure_ner", retry.answers[2])

(***************************************************************************)
(* Properties of process_existing_blobs (checked under SpecBatch).         *)
(***************************************************************************)
\* the request went on to the replay of the container
Replaying == hpc \in {"loop", "process_blob"} \/ (hpc = "done" /\ blob_list # <<>>)

\* the response carries the summary of a replay
Summarised == hpc = "done" /\ blob_list # <<>>

\* the process_blob calls the for loop over blob_list has made: every call but the
\* one made for a posted blob event
LoopCalls == run - (IF req.body \in {"blob_created", "blob_deleted"} THEN 1 ELSE 0)

\* C18: process_existing_blobs calls process_blob once for every listed blob, in list
\* order, also after earlier blobs failed; it always ends with an HTTP response; the
\* summary has processed_count + failed_count = total_blobs and the first 5 error
\* messages at most; among the summaries, status 500 with an "error" field is the
\* answer exactly when every blob failed.
C18_BatchNeverThrowsOnPartialFailure ==
  /\ Replaying =>
       /\ processed_count + failed_count = blob_pos
       /\ Len(blob_errors) = failed_count
       /\ LoopCalls = blob_pos + (IF hpc = "process_blob" THEN 1 ELSE 0)
       /\ hpc = "process_blob" => blob_url = BlobUrl(blob_list[blob_pos + 1])
       /\ \A e \in 1..Len(blob_errors) : \E k \in 1..blob_pos : blob_errors[e].blob = blob_list[k]
  /\ hpc = "done" => response.status_code \in {200, 206, 404, 500}
  /\ Summarised =>
       /\ blob_pos = Len(blob_list)
       /\ LoopCalls = Len(blob_list)
       /\ response.body.total_blobs = Len(blob_list)
       /\ response.body.processed_count + response.body.failed_count
            = response.body.total_blobs
       /\ response.body.failed_count = failed_count
       /\ Len(response.body.errors) = (IF failed_count < 5 THEN failed_count ELSE 5)
       /\ \A e \in 1..Len(response.body.errors) : response.body.errors[e] = blob_errors[e]
       /\ (response.status_code = 500 /\ "error" \in DOMAIN response.body)
            = (failed_count = Len(blob_list))
       /\ (response.status_code = 500) = ("error" \in DOMAIN response.body)

\* C18 witness: six blobs were listed, the first failed and so did each of the others,
\* all six were attempted; the response is 500 with an "error" field, counts 0 + 6 = 6
\* and the first five of the six errors
C18_Witness ==
  /\ Summarised
  /\ Len(blob_list) = 6
  /\ run = 6
  /\ failed_count = 6
  /\ Len(blob_errors) = 6
  /\ Len(response.body.errors) = 5
  /\ response.status_code = 500
  /\ "error" \in DOMAIN response.body

(***************************************************************************)
(* Termination of the retry wrappers (checked under SpecRetryLive).        *)
(***************************************************************************)
\* C21: whatever the collaborator answers, a call of safe_upsert,
\* call_openai_embedding or azure_ner never invokes its collaborator more than
\* max_retries times, and it ends: it returns or it raises.
C21_RetryLoopsTerminate ==
  /\ [](retry.calls <= retry.max_retries)
  /\ <>(retry.status \in {"returned", "raised"})

\* C21 witness: azure_ner with max_retries 3 met a network error and then two 429
\* answers; after its third invocation it raised
C21_Witness ==
  /\ retry.op = "azure_ner"
  /\ retry.max_retries = 3
  /\ retry.answers = <<NetworkError, Http(429), Http(429)>>
  /\ retry.calls = 3
  /\ retry.status = "raised"

(***************************************************************************)
(* Properties of triggerevent (checked under SpecTrigger).                 *)
(***************************************************************************)
\* extract_file is running for the blob of the event
Extracting == pc \in {"extract_file", "extractor", "clean_text", "extractor_return"}

\* the exception extract_file or its extractor raises in this step, "none" if none
ExtractionFailure ==
  IF pc = "extract_file"
  THEN Route(blob_name, Getenv("DOC_INTEL_ENDPOINT"), Getenv("DOC_INTEL_KEY")).error
  ELSE IF pc = "extractor" /\ pc' = "done" THEN outcome'.error
  ELSE "none"

\* C22: (a) when extract_file fails inside process_blob, process_blob ends raising
\* that very exception; (b) when process_blob has raised for the blob of an Event Grid
\* event, triggerevent ends raising the same exception, and it returns when
\* process_blob returned.
C22_TriggerPropagates ==
  [][/\ (hpc = "trigger_process" /\ Extracting /\ pc' = "done") =>
          /\ outcome'.kind = "raised"
          /\ outcome'.error = ExtractionFailure
          /\ outcome'.error \in ValueErrors \cup ExtractionErrors
     /\ (hpc = "trigger_process" /\ hpc' # hpc) =>
          /\ pc = "done"
          /\ hpc' = "done"
          /\ outcome.kind = "raised" =>
               trigger_outcome' = [kind |-> "raised", error |-> outcome.error]
          /\ outcome.kind = "returned" =>
               trigger_outcome' = [kind |-> "returned", error |-> "none"]]_vars

\* C22 witness: the event named a file of an unsupported type; extract_file raised
\* its ValueError and triggerevent ended raising it
C22_Witness ==
  /\ hpc = "done"
  /\ azeventgrid.url = <<"/", "c", "/", "x", ".", "e", "x", "e">>
  /\ run = 1
  /\ trigger_outcome = [kind |-> "raised", error |-> "ValueError: Unsupported file type"]

(***************************************************************************)
(* The record extract_file returns (checked under SpecRoute).              *)
(***************************************************************************)
\* the type the specification gives the record of each extractor
TypeOf(extractor) ==
  IF extractor = "extract_pdf" THEN "pdf"
  ELSE IF extractor = "extract_docx" THEN "docx"
  ELSE IF extractor = "extract_image_ocr" THEN "image"
  ELSE IF extractor = "extract_csv" THEN "csv"
  ELSE IF extractor = "extract_json" THEN "json"
  ELSE IF extractor = "extract_text" THEN "text"
  ELSE "none"

\* extract_file has returned a record
ExtractFileReturned == pc = "get_chunks"

\* C23: the record a successful extract_file returns carries exactly one of
\* text_chunks and text, and its type is one of pdf, docx, image, csv, json, text: the
\* type of the extractor the routing table selects for the name.
C23_RecordShape ==
  ExtractFileReturned =>
    /\ ("text_chunks" \in DOMAIN extracted_data) # ("text" \in DOMAIN extracted_data)
    /\ extracted_data.type \in {"pdf", "docx", "image", "csv", "json", "text"}
    /\ extracted_data.type = TypeOf(RoutingTable(AfterLastDot(blob_name)))

\* C23 witness: extract_file returned for a .jpeg name: the record has type image and
\* a text field, no text_chunks
C23_Witness ==
  /\ ExtractFileReturned
  /\ blob_name = <<"a", ".", "j", "p", "e", "g">>
  /\ extracted_data.type = "image"
  /\ "text" \in DOMAIN extracted_data
  /\ "text_chunks" \notin DOMAIN extracted_data

(***************************************************************************)
(* A blob event posted to process_existing (checked under SpecBatch).      *)
(***************************************************************************)
\* the request is a POST carrying a BlobCreated or BlobDeleted event
BlobEvent == req.method = "POST" /\ req.body \in {"blob_created", "blob_deleted"}

\* C24 as stated: a posted blob event has only its own blob processed: the handler
\* never lists a container nor calls process_blob a second time, and when process_blob
\* raises for the event's blob, whatever the exception, the handler answers with an
\* error response.
C24_AsStated ==
  /\ [](BlobEvent =>
          /\ hpc \in {"start", "event", "done"}
          /\ blob_list = <<>>
          /\ run <= 1)
  /\ [][(BlobEvent /\ hpc = "event" /\ hpc' # hpc /\ outcome.kind = "raised") =>
          /\ hpc' = "done"
          /\ response'.status_code >= 400
          /\ "error" \in DOMAIN response'.body]_vars

(***************************************************************************)
(* Document ids across files (checked under SpecIds).                      *)
(***************************************************************************)
\* C25 as stated: a document id belongs to one blob: once process_blob has written a
\* document for a blob URL, no run for another blob URL writes a document of that id.
C25_AsStated ==
  [][\A id \in DOMAIN written_for : written_for'[id] = written_for[id]]_vars

(***************************************************************************)
(* Successive versions of one blob (checked under SpecVersions).           *)
(***************************************************************************)
\* the run has ended and wrote a document for every chunk
RunSucceeded ==
  /\ pc = "done"
  /\ outcome.kind = "returned"
  /\ successful_chunks = Len(chunks)

\* the documents the store holds for the file of the current run
StoredForFile == {d \in store : d.filename = blob_name /\ d.category = category}

\* C26 as stated: after successful runs over successive versions of one blob, the
\* store holds for that file exactly the chunk documents of the latest run: one per
\* chunk of that run, written by it, and none with a chunk_index at or beyond its
\* chunk count.
C26_AsStated ==
  RunSucceeded =>
    /\ \A d \in StoredForFile : d.chunk_index < Len(chunks) /\ d.processed_at = run
    /\ Cardinality(StoredForFile) = Len(chunks)

(***************************************************************************)
(* The accounting of the chunk loop (checked under Spec).                  *)
(***************************************************************************)
\* the for loop over the chunks has ended
LoopEnded ==
  /\ chunks # <<>>
  /\ \/ pc = "loop" /\ i = Len(chunks)
     \/ pc = "done"

\* C27: when the chunk loop has ended, successful_chunks + len(chunk_errors) is
\* len(chunks); successful_chunks is the number of chunks whose safe_upsert returned,
\* each of which has its document of this run in the store; every chunk index is
\* either such a chunk or has exactly one entry in chunk_errors, never both.  Between
\* two chunks the two counts add up to the chunks gone through.
C27_ExactAccounting ==
  /\ (pc = "loop" /\ chunks # <<>>) => successful_chunks + Len(chunk_errors) = i
  /\ LoopEnded =>
       /\ successful_chunks + Len(chunk_errors) = Len(chunks)
       /\ successful_chunks = Cardinality(written)
       /\ \A k \in written :
            \E d \in store : d.id = DocId(blob_name, k) /\ d.processed_at = run
       /\ \A k \in 0..(Len(chunks) - 1) :
            /\ (k \in written) # (k \in ErrorChunks)
            /\ k \in ErrorChunks => Cardinality(ErrorsOf(k)) = 1

\* C27 witness: three chunks; the first was written, the second was blank and the
\* third failed: successful_chunks = 1 and chunk_errors has two entries
C27_Witness ==
  /\ LoopEnded
  /\ Len(chunks) = 3
  /\ written = {0}
  /\ successful_chunks = 1
  /\ Len(chunk_errors) = 2
  /\ chunk_errors[1] = [chunk |-> 1, kind |-> "Empty chunk"]
  /\ chunk_errors[2].chunk = 2

(***************************************************************************)
(* Sleeps of a finished retry call (checked under SpecRetry).              *)
(***************************************************************************)
\* the call of the retry wrapper is over
CallOver == retry.status \in {"returned", "raised"}

\* C28 as stated: a call that is over and invoked its collaborator has slept fewer
\* times than it invoked the collaborator: no sleep follows the final attempt.
C28_AsStated ==
  (CallOver /\ retry.calls > 0) => Len(retry.sleeps) < retry.calls

(***************************************************************************)
(* The answer of a replay (checked under SpecBatch).                       *)
(***************************************************************************)
\* C29: a replay that listed n >= 1 blobs of which f failed answers 500 when f = n,
\* 206 when f < n and f/n > 0.8, and 200 otherwise, with body status "completed" when
\* f/n < 0.5 and "completed_with_errors" otherwise; the loop is only entered with a
\* listing that is not empty; 404 is the answer to an empty listing and, without the
\* storage connection string, the answer is 500: in both cases the loop has called
\* process_blob for no blob and nothing was listed or stored.
C29_StatusByFailureRate ==
  /\ Summarised =>
       LET n == Len(blob_list)
           f == failed_count IN
       /\ n >= 1
       /\ f = Len(blob_errors)
       /\ response.body.failed_count = f
       /\ response.status_code =
            (IF f = n THEN 500 ELSE IF 5 * f > 4 * n THEN 206 ELSE 200)
       /\ response.body.status =
            (IF 2 * f < n THEN "completed" ELSE "completed_with_errors")
  /\ hpc \in {"loop", "process_blob"} => blob_list # <<>>
  /\ (hpc = "done" /\ response.status_code = 404) =>
       /\ response.body = [error |-> "No blobs found in container"]
       /\ blob_list = <<>>
       /\ blob_pos = 0
       /\ LoopCalls = 0
  /\ (hpc = "done" /\ ~Truthy(Getenv("AzureWebJobsStorage")) /\ req.body # "validation") =>
       /\ response.status_code = 500
       /\ blob_list = <<>>
       /\ blob_pos = 0
       /\ LoopCalls = 0
       /\ store = {}

\* C29 witness: six blobs were listed and five of them failed: 5/6 > 0.8, the answer
\* is 206 with status "completed_with_errors"
C29_Witness ==
  /\ Summarised
  /\ Len(blob_list) = 6
  /\ failed_count = 5
  /\ processed_count = 1
  /\ response.status_code = 206
  /\ response.body.status = "completed_with_errors"

(***************************************************************************)
(* The Event Grid validation handshake (checked under SpecBatch).          *)
(***************************************************************************)
\* the request is a POST whose first event is a SubscriptionValidationEvent
ValidationRequest == req.method = "POST" /\ req.body = "validation"

\* C30: a validation request is answered with HTTP 200 and a validationResponse equal
\* to the event's validationCode, and for that request no container is listed and
\* process_blob is never called: nothing is downloaded, extracted or stored.
C30_ValidationHandshake ==
  ValidationRequest =>
    /\ hpc \in {"start", "done"}
    /\ hpc = "done" => response = HttpResponse([validationResponse |-> req.code], 200)
    /\ blob_list = <<>>
    /\ blob_pos = 0
    /\ run = 0
    /\ pc = "idle"
    /\ invoked = <<>>
    /\ store = {}

\* C30 witness: the validation event carrying code2 was answered 200 with code2
C30_Witness ==
  /\ ValidationRequest
  /\ req.code = "code2"
  /\ hpc = "done"
  /\ response.status_code = 200
  /\ response.body.validationResponse = "code2"

====
